---- MODULE Spec2Model ----
(***************************************************************************)
(* Decision & Risk Guardrail Engine of forex-signals (System 2.1).         *)
(*                                                                         *)
(* State machines and pure functions modelled from the Python sources:     *)
(*   SentinelEngine, LiquidityCliffMonitor   src/src/engines/sentinel_engine.py    *)
(*   CalibrationDegradationAuditor           src/src/engines/calibration_engine.py *)
(*   SupervisorEngine                        src/src/engines/supervisor_engine.py  *)
(*   PositionSizer, AddToWinnersManager      src/src/core/sizing.py                *)
(*   check_drawdown                          src/src/core/gates.py                 *)
(*                                                                         *)
(* Units: time in whole hours; probabilities, scores, progress and         *)
(* drawdown in hundredths; spreads in tenths of a pip; prices in whole     *)
(* quote-currency units and stop distances in pips.  Decimal and float     *)
(* arithmetic is modelled exactly (as rationals kept as integer numerator  *)
(* and denominator, compared by cross multiplication).                     *)
(***************************************************************************)
EXTENDS Integers, Sequences, FiniteSets, TLC

\* ------------------------------------------------------------------ bounds
MaxSentinelTime == 9      \* the Sentinel clock runs 0..MaxSentinelTime hours
MaxCalibTime == 50        \* the calibration clock runs 0..MaxCalibTime hours
MaxAdds == 1              \* add_prediction_outcome calls after the initial history
MaxPending == 1           \* _async_score tasks left scheduled on a running loop
MaxOrders == 3            \* orders submitted through one OandaAdapter
MaxPasses == 2            \* passes of the monitoring loop started
MaxExecutions == 5        \* executions recorded by one ExecutionQualityMonitor
MaxLoops == 2             \* loop tasks started while another one is alive
MaxTraces == 4            \* pipeline cycles opened

\* ------------------------------------------------------- program constants
SwanThreshold == 70       \* swan_threshold = Decimal('0.70')
ModeDuration == 6         \* mode_duration = timedelta(hours=6)
EceThresholdPct == 5      \* ece_threshold = 0.05
MinSamples == 20          \* len(prediction_history) < 20
RecalibrationWindow == 100 \* recalibration_window = 100
WeightLockDuration == 48  \* weight_lock_duration = timedelta(hours=48)
NBins == 10               \* n_bins: int = 10
HistoryCap == 1000        \* len(self.prediction_history) > 1000
SpreadRatioThreshold == 4 \* spread_ratio_threshold = Decimal('4.0')
MaxDrawdownPct == 5       \* max_dd: float = 0.05
ProgressThreshold == 70   \* progress_threshold = Decimal('0.7')
DrawdownLimit == 25       \* drawdown_limit = Decimal('0.25')
MaxLeverage == 50         \* LeverageLimit.MAX_LEVERAGE = Decimal('50.0')
KellyLiteCap == 25        \* LeverageLimit.KELLY_LITE_CAP = Decimal('0.25')
MaxRiskPct == 2           \* max_risk_per_trade = Decimal('0.02')
HouseBasePct == 70        \* base = nav * Decimal('0.7')
HouseProfitPct == 30      \* profit = nav * Decimal('0.3')
BaseOnlyBelow == 200      \* day_profit_pct < Decimal('0.02'), in 1/10000
ProfitOnlyBelow == 350    \* day_profit_pct < Decimal('0.035'), in 1/10000
ReAddSpan == 150          \* / Decimal('0.015'), in 1/10000
ProtectMaxSpread == 10    \* protect_max_spread = Decimal('1.0'), tenths of a pip
SlippageThreshold == 20   \* slippage_threshold = 2.0 pips, in tenths
FillRateThreshold == 95   \* fill_rate_threshold = 0.95, in hundredths
DelayThreshold == 50      \* execution_delay_threshold = 5.0 s, in tenths
SuccessThreshold == 90    \* success_rate < 0.9, in hundredths
MinExecutions == 5        \* len(recent_executions) < 5
LookbackMinutes == 30     \* lookback_minutes: int = 30
ExecutionCap == 500       \* len(self.execution_history) > 500
PipScale == 10000         \* Decimal('10000'), 4-decimal instruments
ConfidenceThreshold == 80 \* confidence_threshold = 0.8
AdapterLeverageCap == 50  \* return leverage <= 50

None == -1                \* Python None for an unset timestamp

VARIABLES
    now,                \* datetime.utcnow(), hours
    lastOp,             \* name of the operation that produced this state
    mode,               \* SentinelEngine.mode
    mode_start_time,    \* SentinelEngine.mode_start_time
    last_assessment,    \* SentinelEngine.last_assessment (the returned result)
    system_state,       \* CalibrationDegradationAuditor.system_state
    weight_lock_start,  \* CalibrationDegradationAuditor.weight_lock_start
    prediction_history, \* CalibrationDegradationAuditor.prediction_history
    nAdds,              \* add_prediction_outcome calls made so far
    result,             \* what the operation that produced this state returned
    pending_tasks,      \* _async_score tasks created but not yet run
    current_weights,    \* SupervisorEngine.current_weights, as w[e] / total
    base_weights,       \* SupervisorEngine.base_weights, hundredths
    emergency_active,   \* LiquidityCliffMonitor.emergency_active
    atw_state,          \* AddToWinnersManager.state
    current_regime,     \* MarketRegimeClassifier.current_regime
    regime_confidence,  \* MarketRegimeClassifier.regime_confidence, hundredths
    last_orders,        \* OandaAdapter.last_orders
    open_positions,     \* OandaAdapter.open_positions: instrument -> [side, size]
    monitoring,         \* SignalEngine.monitoring
    loop_pc,            \* where the _monitoring_loop task stands
    next_instrument,    \* index of the instrument the for loop checks next
    pass_checked,       \* the checks made in the current pass, in order
    passes,             \* passes of the while loop started so far
    other_loops,        \* _monitoring_loop tasks alive beside the one followed
    local_trace_id,     \* TraceContext._local.trace_id of the thread, None if unset
    cycle_trace_id,     \* per instrument, the trace id of its open pipeline cycle
    uuids_drawn,        \* uuid4 values drawn so far
    execution_history,  \* ExecutionQualityMonitor.execution_history
    route_diversion_active  \* ExecutionQualityMonitor.route_diversion_active

vars == <<now, lastOp, mode, mode_start_time, last_assessment, system_state,
          weight_lock_start, prediction_history, nAdds, result,
          pending_tasks, current_weights, base_weights, emergency_active, atw_state,
          current_regime, regime_confidence, last_orders, open_positions,
          monitoring, loop_pc, next_instrument, pass_checked, passes, other_loops,
          local_trace_id, cycle_trace_id, uuids_drawn,
          execution_history, route_diversion_active>>

sentinelVars == <<mode, mode_start_time, last_assessment>>
calibVars == <<system_state, weight_lock_start, prediction_history, nAdds>>
supervisorVars == <<pending_tasks, current_weights, base_weights>>
guardVars == <<emergency_active, atw_state>>
baseVars == <<sentinelVars, calibVars, supervisorVars, guardVars>>
regimeVars == <<current_regime, regime_confidence>>
adapterVars == <<last_orders, open_positions>>
monitorVars == <<monitoring, loop_pc, next_instrument, pass_checked, passes, other_loops>>
execVars == <<execution_history, route_diversion_active>>
traceVars == <<local_trace_id, cycle_trace_id, uuids_drawn>>
extVars == <<regimeVars, adapterVars, monitorVars, execVars, traceVars>>

\* ---------------------------------------------------------------- helpers
NoResult == [op |-> "none"]
Abs(x) == IF x < 0 THEN -x ELSE x

\* ================================================================ Sentinel
SwanValues == {40, 50, 69, 70, 75}
RecommendedModes == {"protect", "pounce", "stand_down", "pounse"}

NoAssessment == [previous_mode |-> "none", current_mode |-> "none", swan_score |-> 0,
                 override_active |-> FALSE, llm_recommendation |-> "none"]

\* mutant: an unrecognized recommendation leaves the Sentinel standing down
AdoptedMode_Unrecognized(recommended_mode) ==
    IF recommended_mode = "protect" THEN "protect"
    ELSE IF recommended_mode = "pounce" THEN "pounce"
    ELSE "stand_down"

\* sentinel_engine.py:57-62: the mode adopted on a high swan score
AdoptedMode(recommended_mode) ==
    IF recommended_mode = "protect" THEN "protect"
    ELSE IF recommended_mode = "pounce" THEN "pounce"
    ELSE "protect"

\* sentinel_engine.py:94-96
should_override_strategy_router == mode # "stand_down"

\* sentinel_engine.py:166-184: the mode part of the status
get_current_status ==
    [mode |-> mode, override_active |-> mode # "stand_down",
     last_assessment |-> last_assessment]

\* sentinel_engine.py:38-92
assess_and_update_mode(swan_score, recommended_mode) ==
    /\ IF swan_score >= SwanThreshold
       THEN /\ mode' = AdoptedMode(recommended_mode)
            /\ mode_start_time' = now
       ELSE IF mode # "stand_down"
       THEN IF mode_start_time # None /\ now - mode_start_time > ModeDuration
            THEN /\ mode' = "stand_down"
                 /\ mode_start_time' = None
            ELSE UNCHANGED <<mode, mode_start_time>>
       ELSE UNCHANGED <<mode, mode_start_time>>
    /\ last_assessment' = [previous_mode |-> mode, current_mode |-> mode',
                           swan_score |-> swan_score,
                           override_active |-> (swan_score >= SwanThreshold),
                           llm_recommendation |-> recommended_mode]
    /\ lastOp' = "assess_and_update_mode"
    /\ result' = last_assessment'
    /\ UNCHANGED <<now, calibVars, supervisorVars, guardVars, extVars>>

Assess == \E s \in SwanValues, r \in RecommendedModes : assess_and_update_mode(s, r)

\* the wall clock of the Sentinel scenarios
TickSentinel ==
    /\ now < MaxSentinelTime
    /\ now' = now + 1
    /\ lastOp' = "tick"
    /\ result' = NoResult
    /\ UNCHANGED <<sentinelVars, calibVars, supervisorVars, guardVars, extVars>>

\* sentinel_engine.py:32
ProtectDisabledStrategies == {"range_fade", "main_smc_adds"}

\* the strategy entry of trading_params; "none" when the key is missing
Strategies == {"range_fade", "main_smc_adds", "session_breakout", "none"}

\* the max_spread_pips entry of trading_params, tenths of a pip; None when
\* the key is missing
MaxSpreadValues == {None, 5, 10, 20}

\* sentinel_engine.py:98-130: the trading_params handed back, with the
\* max_spread_pips the caller passed in
apply_protect_mode_constraints(strategy, max_spread_pips) ==
    /\ result' = IF mode # "protect"
                 THEN [op |-> "apply_protect_mode_constraints", strategy |-> strategy,
                       given_max_spread_pips |-> max_spread_pips,
                       max_spread_pips |-> max_spread_pips, strategy_blocked |-> FALSE,
                       add_to_winners_disabled |-> FALSE]
                 ELSE [op |-> "apply_protect_mode_constraints", strategy |-> strategy,
                       given_max_spread_pips |-> max_spread_pips,
                       max_spread_pips |-> ProtectMaxSpread,
                       strategy_blocked |-> strategy \in ProtectDisabledStrategies,
                       add_to_winners_disabled |-> TRUE]
    /\ lastOp' = "apply_protect_mode_constraints"
    /\ UNCHANGED <<now, baseVars, extVars>>

ApplyProtectModeConstraints ==
    \E strategy \in Strategies, max_spread_pips \in MaxSpreadValues :
        apply_protect_mode_constraints(strategy, max_spread_pips)

PounceTpMax == 280          \* pounce_tp_multipliers["max"], hundredths
DefaultTpMultiple == 150    \* trading_params.get("tp_multiple", 1.5), hundredths
PounceEnabledStrategies == {"session_breakout", "sentiment_breakout"}

\* the tp_multiple entry of trading_params, hundredths; None when the key is
\* missing
TpMultiples == {None, 0, 150, 200, 280, 300}

PounceTpMultiple_Uncapped(original_tp_multiple) ==
    (original_tp_multiple * 3) \div 2

\* sentinel_engine.py:151-154: min(pounce_tp_multipliers["max"], original * 1.5)
PounceTpMultiple(original_tp_multiple) ==
    IF (original_tp_multiple * 3) \div 2 < PounceTpMax THEN (original_tp_multiple * 3) \div 2 ELSE PounceTpMax

\* sentinel_engine.py:132-164: the trading_params handed back, with the
\* tp_multiple the caller passed in
apply_pounce_mode_enhancements(strategy, tp_multiple, velocity_tp_bypass_enabled) ==
    /\ result' = IF mode # "pounce"
                 THEN [op |-> "apply_pounce_mode_enhancements", strategy |-> strategy,
                       velocity_tp_bypass_enabled |-> velocity_tp_bypass_enabled,
                       given_tp_multiple |-> tp_multiple, tp_multiple |-> tp_multiple,
                       entry_type |-> "unset", pounce_mode_enabled |-> FALSE,
                       tp_enhancement_reason |-> "unset"]
                 ELSE [op |-> "apply_pounce_mode_enhancements", strategy |-> strategy,
                       velocity_tp_bypass_enabled |-> velocity_tp_bypass_enabled,
                       given_tp_multiple |-> tp_multiple,
                       tp_multiple |->
                           IF velocity_tp_bypass_enabled
                           THEN PounceTpMultiple(IF tp_multiple = None
                                                 THEN DefaultTpMultiple ELSE tp_multiple)
                           ELSE tp_multiple,
                       entry_type |-> IF strategy \in PounceEnabledStrategies
                                      THEN "stop_only" ELSE "unset",
                       pounce_mode_enabled |-> strategy \in PounceEnabledStrategies,
                       tp_enhancement_reason |-> IF velocity_tp_bypass_enabled
                                                 THEN "sentinel_pounce_mode" ELSE "unset"]
    /\ lastOp' = "apply_pounce_mode_enhancements"
    /\ UNCHANGED <<now, baseVars, extVars>>

ApplyPounceModeEnhancements ==
    \E strategy \in Strategies, tp_multiple \in TpMultiples, velocity_tp_bypass_enabled \in BOOLEAN :
        apply_pounce_mode_enhancements(strategy, tp_multiple, velocity_tp_bypass_enabled)

\* ============================================================= Calibration
PredValues == {5, 95}       \* predicted probabilities offered to add_prediction_outcome
Outcomes == {0, 1}          \* actual_outcome as 1.0 / 0.0

\* a history of n records with prediction p whose first k outcomes are wins:
\* what n add_prediction_outcome calls leave behind
History(n, p, k) == [i \in 1..n |-> [predicted_prob |-> p,
                                     actual_outcome |-> IF i <= k THEN 1 ELSE 0]]

InitHistories ==
    { <<>>,
      History(19, 95, 16),     \* one sample short of the minimum
      History(20, 95, 19),     \* ECE 0.00
      History(20, 95, 18),     \* ECE 0.05 exactly
      History(20, 95, 17),     \* ECE 0.10
      History(99, 95, 90),     \* one sample short of the recalibration window
      History(100, 95, 95),    \* ECE 0.00, enough for recalibration
      History(100, 95, 80) }   \* ECE 0.15, enough for recalibration

\* calibration_engine.py:92-100: index of the uniform bin that holds p;
\* the last bin includes its upper boundary
BinOf(p) == IF p >= 100 THEN NBins - 1 ELSE (p * NBins) \div 100

\* calibration_engine.py:98-100: bin_mask, the positions of history h in bin b
BinMask(h, b) == {i \in DOMAIN h : BinOf(h[i].predicted_prob) = b}

\* calibration_engine.py:102-105: len(bin_predictions)
BinCount(h, b) == Cardinality(BinMask(h, b))

\* calibration_engine.py:106: sum of the predictions in bin b (hundredths),
\* added up value by value
BinPredSum(h, b) ==
    LET mask == BinMask(h, b)
        RECURSIVE Sum(_)
        Sum(V) == IF V = {} THEN 0
                  ELSE LET v == CHOOSE x \in V : TRUE
                       IN  v * Cardinality({i \in mask : h[i].predicted_prob = v})
                           + Sum(V \ {v})
    IN  Sum({h[i].predicted_prob : i \in mask})

\* calibration_engine.py:107: sum of the outcomes (1.0 or 0.0) in bin b
BinOutcomeSum(h, b) == Cardinality({i \in BinMask(h, b) : h[i].actual_outcome = 1})

\* calibration_engine.py:105-111: |accuracy - confidence| * weight of bin b,
\* times 100 * len(h):  |O/n - S/(100 n)| * n/N * 100 N = |100 O - S|
BinEce(h, b) ==
    IF BinCount(h, b) > 0
    THEN Abs(100 * BinOutcomeSum(h, b) - BinPredSum(h, b))
    ELSE 0

\* calibration_engine.py:93-111: ece, times 100 * len(h)
EceScaled(h) ==
    LET S[b \in -1..(NBins - 1)] == IF b = -1 THEN 0 ELSE S[b - 1] + BinEce(h, b)
    IN  S[NBins - 1]

\* mutant: the threshold itself counts as a breach
EceBreach_Inclusive(h) == EceScaled(h) >= EceThresholdPct * Len(h)

\* calibration_engine.py:128,136: ece > self.ece_threshold
EceBreach(h) == EceScaled(h) > EceThresholdPct * Len(h)

\* calibration_engine.py:74: enough samples to compute an ECE at all
EnoughSamples(h) == Len(h) >= MinSamples

\* mutant: the cap keeps the oldest records
LimitHistory_KeepOldest(appended) ==
    IF Len(appended) > HistoryCap THEN SubSeq(appended, 1, HistoryCap) ELSE appended

\* calibration_engine.py:58-60: prediction_history[-1000:] once over 1000
LimitHistory(appended) ==
    IF Len(appended) > HistoryCap
    THEN SubSeq(appended, Len(appended) - HistoryCap + 1, Len(appended))
    ELSE appended

\* calibration_engine.py:42-65
add_prediction_outcome(predicted_probability, actual_outcome) ==
    /\ nAdds < MaxAdds
    /\ nAdds' = nAdds + 1
    /\ prediction_history' =
          LimitHistory(Append(prediction_history,
                              [predicted_prob |-> predicted_probability,
                               actual_outcome |-> actual_outcome]))
    /\ lastOp' = "add_prediction_outcome"
    /\ result' = NoResult
    /\ UNCHANGED <<now, sentinelVars, supervisorVars, guardVars, extVars, system_state,
                   weight_lock_start>>

AddPredictionOutcome ==
    \E p \in PredValues, o \in Outcomes : add_prediction_outcome(p, o)

\* mutant: a breach triggers the lock in every state
TriggersLock_AnyState(breach, state) == breach

\* calibration_engine.py:136: ece > self.ece_threshold and
\* self.system_state == SystemState.NORMAL
TriggersLock(breach, state) == breach /\ state = "normal"

\* calibration_engine.py:67-145
calculate_ece ==
    /\ lastOp' = "calculate_ece"
    /\ IF ~EnoughSamples(prediction_history)
       THEN /\ result' = [op |-> "calculate_ece", insufficient_data |-> TRUE,
                          ece_scaled |-> 0, breach |-> FALSE,
                          weight_lock_triggered |-> FALSE]
            /\ UNCHANGED <<system_state, weight_lock_start>>
       ELSE LET ece == EceScaled(prediction_history)
                breach == EceBreach(prediction_history)
                trigger == TriggersLock(breach, system_state)
            IN  /\ result' = [op |-> "calculate_ece", insufficient_data |-> FALSE,
                              ece_scaled |-> ece, breach |-> breach,
                              weight_lock_triggered |-> trigger]
                /\ IF trigger
                   THEN /\ system_state' = "weight_lock"
                        /\ weight_lock_start' = now
                   ELSE UNCHANGED <<system_state, weight_lock_start>>
    /\ UNCHANGED <<now, sentinelVars, supervisorVars, guardVars, extVars, prediction_history, nAdds>>

\* calibration_engine.py:183: elapsed >= self.weight_lock_duration
LockElapsed(start, t) == t - start >= WeightLockDuration

\* calibration_engine.py:174-198
check_weight_lock_status ==
    /\ lastOp' = "check_weight_lock_status"
    /\ IF system_state # "weight_lock" \/ weight_lock_start = None
       THEN /\ result' = [op |-> "check_weight_lock_status",
                          weight_lock_active |-> FALSE, weight_lock_released |-> FALSE]
            /\ UNCHANGED system_state
       ELSE IF LockElapsed(weight_lock_start, now)
       THEN /\ result' = [op |-> "check_weight_lock_status",
                          weight_lock_active |-> FALSE, weight_lock_released |-> TRUE]
            /\ system_state' = "recalibration"
       ELSE /\ result' = [op |-> "check_weight_lock_status",
                          weight_lock_active |-> TRUE, weight_lock_released |-> FALSE]
            /\ UNCHANGED system_state
    /\ UNCHANGED <<now, sentinelVars, supervisorVars, guardVars, extVars, weight_lock_start,
                   prediction_history, nAdds>>

\* calibration_engine.py:207: enough samples for isotonic recalibration
CanRecalibrate(h) == Len(h) >= RecalibrationWindow

\* calibration_engine.py:200-249
perform_isotonic_recalibration ==
    /\ lastOp' = "perform_isotonic_recalibration"
    /\ IF CanRecalibrate(prediction_history)
       THEN /\ result' = [op |-> "perform_isotonic_recalibration",
                          recalibration_status |-> "completed"]
            /\ system_state' = "normal"
       ELSE /\ result' = [op |-> "perform_isotonic_recalibration",
                          recalibration_status |-> "insufficient_data"]
            /\ UNCHANGED system_state
    /\ UNCHANGED <<now, sentinelVars, supervisorVars, guardVars, extVars, weight_lock_start,
                   prediction_history, nAdds>>

\* the instants (hours) at which the calibration scenarios look at the clock
CalibInstants == {1, 24, 47, 48, 49, 50, 51}

\* the wall clock of the calibration scenarios: time passes up to a later instant
TickCalib ==
    /\ \E t \in CalibInstants : t > now /\ t <= MaxCalibTime /\ now' = t
    /\ lastOp' = "tick"
    /\ result' = NoResult
    /\ UNCHANGED <<sentinelVars, calibVars, supervisorVars, guardVars, extVars>>

\* ======================================================= Execution quality
\* executions offered to record_execution: slippage in tenths of a pip, fill
\* rate and success in hundredths, delay in tenths of a second
ExecutionData ==
    {[slippage_pips |-> 0, fill_rate |-> 100, execution_delay_seconds |-> 0,
      success |-> 100],
     [slippage_pips |-> 30, fill_rate |-> 50, execution_delay_seconds |-> 0,
      success |-> 100]}

\* calibration_engine.py:303-325
record_execution(execution_data) ==
    /\ Len(execution_history) < MaxExecutions
    /\ LET appended == Append(execution_history, [timestamp |-> now] @@ execution_data)
       IN  execution_history' =
              IF Len(appended) > ExecutionCap
              THEN SubSeq(appended, Len(appended) - ExecutionCap + 1, Len(appended))
              ELSE appended
    /\ lastOp' = "record_execution"
    /\ result' = NoResult
    /\ UNCHANGED <<now, baseVars, traceVars, regimeVars, adapterVars, monitorVars,
                   route_diversion_active>>

RecordExecution == \E d \in ExecutionData : record_execution(d)

\* calibration_engine.py:333-337: the records inside the lookback window
RecentExecutions ==
    SelectSeq(execution_history,
              LAMBDA r : 60 * r.timestamp >= 60 * now - LookbackMinutes)

\* sum of field f over the records of a sequence
RECURSIVE SumField(_, _)
SumField(records, f) ==
    IF records = <<>> THEN 0 ELSE Head(records)[f] + SumField(Tail(records), f)

\* calibration_engine.py:352-366: the number of quality issues of the means
QualityIssues(recent) ==
    LET n == Len(recent)
    IN  (IF SumField(recent, "slippage_pips") > SlippageThreshold * n THEN 1 ELSE 0)
        + (IF SumField(recent, "fill_rate") < FillRateThreshold * n THEN 1 ELSE 0)
        + (IF SumField(recent, "execution_delay_seconds") > DelayThreshold * n
           THEN 1 ELSE 0)
        + (IF SumField(recent, "success") < SuccessThreshold * n THEN 1 ELSE 0)

\* calibration_engine.py:327-388, with _trigger_route_diversion (390-408)
assess_execution_quality ==
    LET recent == RecentExecutions
        diversion_needed == QualityIssues(recent) >= 2
        triggered == diversion_needed /\ ~route_diversion_active
    IN  /\ IF Len(recent) < MinExecutions
           THEN /\ result' = [op |-> "assess_execution_quality",
                              quality_assessment |-> "insufficient_data",
                              diversion_needed |-> FALSE,
                              route_diversion_triggered |-> FALSE]
                /\ UNCHANGED route_diversion_active
           ELSE /\ result' = [op |-> "assess_execution_quality",
                              quality_assessment |-> "assessed",
                              diversion_needed |-> diversion_needed,
                              route_diversion_triggered |-> triggered]
                /\ route_diversion_active' = (route_diversion_active \/ triggered)
        /\ lastOp' = "assess_execution_quality"
        /\ UNCHANGED <<now, baseVars, traceVars, regimeVars, adapterVars, monitorVars,
                       execution_history>>

\* calibration_engine.py:416-423
reset_route_diversion ==
    /\ route_diversion_active' = FALSE
    /\ lastOp' = "reset_route_diversion"
    /\ result' = NoResult
    /\ UNCHANGED <<now, baseVars, traceVars, regimeVars, adapterVars, monitorVars,
                   execution_history>>

\* ============================================================== Supervisor
Engines == {"technical_engine", "psychology_engine"}

\* what engine.score(context) can do: a (score, reason) tuple, a bare number,
\* any other value, or an exception (scores in hundredths)
EngineOutcomes ==
    {[kind |-> "tuple", score |-> 0], [kind |-> "tuple", score |-> 100],
     [kind |-> "number", score |-> 70],
     [kind |-> "unknown", score |-> 0],
     [kind |-> "raise", score |-> 0]}

\* the engines' results for the contexts the scenarios offer
EngineResults ==
    {r \in [Engines -> EngineOutcomes] :
        r["psychology_engine"].kind = "tuple" \/ r["technical_engine"].score = 100}

\* how a score() call runs: asyncio.run(_async_score) to completion; _async_score
\* raising in its imports or in the audit logger; score() called from inside a
\* running loop (run_until_complete raises); no usable event loop at all
ScorePaths == {"async_ok", "async_import_error", "async_log_error",
               "running_loop", "no_loop"}

\* (gssi_score, car_score) in hundredths as gssi_car_engine reports them for the
\* context; "error" when the stress calculation raises
StressInputs == {<<20, 10>>, <<30, 55>>, <<-1, -1>>}

\* supervisor_engine.py:19-22: the weights given to the constructor (hundredths)
BaseWeights == [e \in Engines |-> IF e = "technical_engine" THEN 60 ELSE 40]

\* gssi_car_engine.py:353-360: profile of the current regime (hundredths)
RegimeWeights == [technical_engine |-> 40, volatility_engine |-> 10,
                  correlation_engine |-> 25, sentiment_engine |-> 15,
                  fundamental_engine |-> 10, news_engine |-> 0]

\* gssi_car_engine.py:326-377: the default weight profile of each regime
RegimeProfile(regime) ==
    CASE regime = "trending_bull" ->
           [technical_engine |-> 35, fundamental_engine |-> 25, sentiment_engine |-> 20,
            correlation_engine |-> 10, volatility_engine |-> 5, news_engine |-> 5]
      [] regime = "trending_bear" ->
           [technical_engine |-> 30, fundamental_engine |-> 20, sentiment_engine |-> 15,
            correlation_engine |-> 15, volatility_engine |-> 15, news_engine |-> 5]
      [] regime = "ranging_high_vol" ->
           [technical_engine |-> 25, volatility_engine |-> 30, correlation_engine |-> 20,
            sentiment_engine |-> 15, fundamental_engine |-> 5, news_engine |-> 5]
      [] regime = "ranging_low_vol" -> RegimeWeights
      [] regime = "crisis_mode" ->
           [sentiment_engine |-> 35, news_engine |-> 25, volatility_engine |-> 20,
            correlation_engine |-> 15, technical_engine |-> 5, fundamental_engine |-> 0]
      [] regime = "recovery_mode" ->
           [fundamental_engine |-> 35, technical_engine |-> 25, sentiment_engine |-> 20,
            volatility_engine |-> 10, correlation_engine |-> 10, news_engine |-> 0]

\* sum of f over the engines
SumEngines(f) ==
    LET RECURSIVE Sum(_)
        Sum(S) == IF S = {} THEN 0
                  ELSE LET e == CHOOSE x \in S : TRUE IN f[e] + Sum(S \ {e})
    IN  Sum(DOMAIN f)

\* supervisor_engine.py:235-253: weights as w[e] / total
_merge_weights(base, regime_weights) ==
    LET merged == [e \in DOMAIN base |->
                      IF e \in DOMAIN regime_weights THEN regime_weights[e]
                      ELSE base[e]]
        total_weight == SumEngines(merged)
    IN  IF total_weight > 0
        THEN [w |-> merged, total |-> total_weight]
        ELSE [w |-> merged, total |-> 100]

\* supervisor_engine.py:57-62,127-132: the score taken from an engine's result
EngineScore(outcome) ==
    IF outcome.kind \in {"tuple", "number"} THEN outcome.score ELSE 0

\* mutant: an engine that raises gets no entry in reasons
EngineReason_Silent(outcome, fallback) ==
    CASE outcome.kind = "tuple" -> "engine_reason"
      [] outcome.kind = "number" -> "numeric_result"
      [] outcome.kind = "unknown" -> "unknown_result_type"
      [] OTHER -> "none"

\* supervisor_engine.py:57-68,127-147: the reason recorded for an engine;
\* _basic_score prefixes an exception with "error", _async_score with
\* "engine_error"
EngineReason(outcome, fallback) ==
    CASE outcome.kind = "tuple" -> "engine_reason"
      [] outcome.kind = "number" -> "numeric_result"
      [] outcome.kind = "unknown" -> "unknown_result_type"
      [] OTHER -> IF fallback THEN "error" ELSE "engine_error"

\* supervisor_engine.py:70,156: sum(scores[name] * current_weights.get(name, 0.0)),
\* as a fraction num / den
WeightedSum(results, weights) ==
    [num |-> SumEngines([e \in Engines |-> EngineScore(results[e]) * weights.w[e]]),
     den |-> 100 * weights.total]

\* supervisor_engine.py:206-213: adjustment factor in tenths
AdjustmentFactor(gssi_score, car_score) ==
    IF gssi_score >= 80 \/ car_score >= 70 THEN 3
    ELSE IF gssi_score >= 60 \/ car_score >= 50 THEN 6
    ELSE IF gssi_score >= 40 \/ car_score >= 30 THEN 8
    ELSE 10

\* supervisor_engine.py:188-233
_apply_gssi_car_adjustment(base_score, stress) ==
    IF stress = <<-1, -1>>
    THEN base_score
    ELSE [num |-> base_score.num * AdjustmentFactor(stress[1], stress[2]),
          den |-> base_score.den * 10]

\* supervisor_engine.py:88-106: Sentinel override checked before any scoring
SentinelOverrides == should_override_strategy_router

\* supervisor_engine.py:79-186: one _async_score run: whether it raised, what it
\* returned, the engine.score calls and audit events it made, the weights it left
_async_score(results, stress, fault) ==
    LET merged == _merge_weights(base_weights, RegimeProfile(current_regime))
        final == _apply_gssi_car_adjustment(WeightedSum(results, merged), stress)
        logged == fault # "log"
    IN  IF fault = "import"
        THEN [raised |-> TRUE, decision |-> "none", final |-> [num |-> 0, den |-> 1],
              engine_calls |-> 0, audit_events |-> 0, weights |-> current_weights,
              audit_decision |-> "none", audit_final |-> [num |-> 0, den |-> 1]]
        ELSE IF SentinelOverrides
        THEN [raised |-> ~logged, decision |-> "SENTINEL_OVERRIDE",
              final |-> [num |-> 0, den |-> 1], engine_calls |-> 0,
              audit_events |-> IF logged THEN 1 ELSE 0,
              weights |-> current_weights,
              audit_decision |-> IF logged THEN "SENTINEL_OVERRIDE" ELSE "none",
              audit_final |-> [num |-> 0, den |-> 1]]
        ELSE [raised |-> ~logged, decision |-> "NORMAL_PROCESSING",
              final |-> final, engine_calls |-> Cardinality(Engines),
              audit_events |-> IF logged THEN 1 ELSE 0,
              weights |-> merged,
              audit_decision |-> IF logged THEN "NORMAL_PROCESSING" ELSE "none",
              audit_final |-> IF logged THEN final ELSE [num |-> 0, den |-> 1]]

\* supervisor_engine.py:49-77
_basic_score(results, weights) ==
    [decision |-> "BASIC_FALLBACK", final |-> WeightedSum(results, weights),
     engine_calls |-> Cardinality(Engines), audit_events |-> 0]

\* supervisor_engine.py:37-47: does this call run _async_score to its end or error
RunsAsync(path) == path \in {"async_ok", "async_import_error", "async_log_error"}

\* supervisor_engine.py:29-47
score(path, results, stress) ==
    LET fault == IF path = "async_import_error" THEN "import"
                 ELSE IF path = "async_log_error" THEN "log" ELSE "none"
        async == _async_score(results, stress, fault)
        weightsAfter == IF RunsAsync(path) THEN async.weights ELSE current_weights
        basic == _basic_score(results, weightsAfter)
        fellBack == ~RunsAsync(path) \/ async.raised
        evaluated == IF fellBack \/ async.engine_calls > 0 THEN Engines ELSE {}
    IN  /\ path = "running_loop" => pending_tasks < MaxPending
        /\ pending_tasks' = IF path = "running_loop" THEN pending_tasks + 1
                            ELSE pending_tasks
        /\ current_weights' = weightsAfter
        /\ result' =
              [op |-> "score",
               path |-> path,
               sentinel_mode |-> mode,
               calibration_state |-> system_state,
               decision |-> IF fellBack THEN basic.decision ELSE async.decision,
               final |-> IF fellBack THEN basic.final ELSE async.final,
               engine_calls |-> (IF RunsAsync(path) THEN async.engine_calls ELSE 0)
                                + (IF fellBack THEN basic.engine_calls ELSE 0),
               audit_events |-> IF RunsAsync(path) THEN async.audit_events ELSE 0,
               audit_decision |-> IF RunsAsync(path) THEN async.audit_decision
                                  ELSE "none",
               audit_final |-> IF RunsAsync(path) THEN async.audit_final
                               ELSE [num |-> 0, den |-> 1],
               engine_results |-> results,
               engine_scores |-> [e \in evaluated |-> EngineScore(results[e])],
               reasons |-> [e \in evaluated |-> EngineReason(results[e], fellBack)],
               weights_used |-> weightsAfter]
        /\ lastOp' = "score"
        /\ UNCHANGED <<now, base_weights, sentinelVars, calibVars, guardVars, extVars>>

Score ==
    \E path \in ScorePaths, stress \in StressInputs, results \in EngineResults :
        score(path, results, stress)

\* supervisor_engine.py:41: the task created on a running loop runs later, when
\* the loop gets control; what it returns is dropped
RunScheduledTask ==
    /\ pending_tasks > 0
    /\ pending_tasks' = pending_tasks - 1
    /\ current_weights' =
          _async_score([e \in Engines |-> [kind |-> "tuple", score |-> 0]],
                       <<-1, -1>>, "none").weights
    /\ lastOp' = "scheduled_async_score"
    /\ result' = NoResult
    /\ UNCHANGED <<now, base_weights, sentinelVars, calibVars, guardVars, extVars>>

\* the weights a SupervisorEngine is constructed with (hundredths)
BaseWeightChoices ==
    {BaseWeights,
     [e \in Engines |-> IF e = "technical_engine" THEN 200 ELSE 100],
     [e \in Engines |-> IF e = "technical_engine" THEN 0 ELSE 100]}

\* score() calls of the weight scenarios
ScoreWithWeights ==
    \E path \in ScorePaths,
       results \in {r \in EngineResults : \A e \in Engines : r[e].kind = "tuple"} :
        score(path, results, <<20, 10>>)

\* the Sentinel assessments of the Supervisor scenarios
AssessForSupervisor ==
    \E r \in {"protect", "pounce"} : assess_and_update_mode(75, r)

\* ========================================================= Liquidity cliff
SpreadP50Values == {0, 5, 10, 12, 15, 20}                   \* tenths of a pip
SpreadP99Values == {10, 20, 21, 40, 41, 48, 49, 50, 60, 80, 81}

\* sentinel_engine.py:216-221: spread_ratio > threshold, with the ratio taken
\* as 999.0 when p50 is not positive
CliffDetected(spread_p50, spread_p99) ==
    IF spread_p50 > 0
    THEN spread_p99 > SpreadRatioThreshold * spread_p50
    ELSE 999 > SpreadRatioThreshold

\* mutant: the emergency fires on every call that sees a cliff
TriggersEmergency_Level(cliff_detected, active) == cliff_detected

\* sentinel_engine.py:232: the emergency fires on the rising edge only
TriggersEmergency(cliff_detected, active) == cliff_detected /\ ~active

\* sentinel_engine.py:241: the emergency clears on the falling edge
ClearsEmergency(cliff_detected, active) == ~cliff_detected /\ active

\* sentinel_engine.py:206-245
check_liquidity_cliff(spread_p50, spread_p99) ==
    LET cliff_detected == CliffDetected(spread_p50, spread_p99)
        trigger == TriggersEmergency(cliff_detected, emergency_active)
        clear == ~trigger /\ ClearsEmergency(cliff_detected, emergency_active)
    IN  /\ emergency_active' = IF trigger THEN TRUE
                               ELSE IF clear THEN FALSE ELSE emergency_active
        /\ result' = [op |-> "check_liquidity_cliff",
                      spread_p50 |-> spread_p50, spread_p99 |-> spread_p99,
                      cliff_detected |-> cliff_detected,
                      emergency_actions |-> IF trigger THEN "cancel_and_exit"
                                            ELSE IF clear THEN "emergency_cleared"
                                            ELSE "none"]
        /\ lastOp' = "check_liquidity_cliff"
        /\ UNCHANGED <<now, sentinelVars, calibVars, supervisorVars, atw_state, extVars>>

CheckLiquidityCliff ==
    \E p50 \in SpreadP50Values, p99 \in SpreadP99Values : check_liquidity_cliff(p50, p99)

\* ================================================================ Drawdown
NavValues == 88..100           \* NAV in thousands
PeakNavValues == {0} \cup 96..104

\* gates.py:15-18: True when the drawdown is within the cap
check_drawdown(nav, peak_nav) ==
    IF peak_nav > 0
    THEN (peak_nav - nav) * 100 <= MaxDrawdownPct * peak_nav
    ELSE TRUE

\* one drawdown check of the trading day; gates.py keeps no state between checks
CheckDrawdown ==
    \E nav \in NavValues, peak_nav \in PeakNavValues :
        /\ peak_nav = 0 \/ nav <= peak_nav
        /\ result' = [op |-> "check_drawdown", nav |-> nav, peak_nav |-> peak_nav,
                      within_cap |-> check_drawdown(nav, peak_nav)]
        /\ lastOp' = "check_drawdown"
        /\ UNCHANGED <<now, sentinelVars, calibVars, supervisorVars, guardVars, extVars>>

\* ========================================================== Add-to-Winners
ProgressValues == {0, 50, 69, 70, 71, 80, 100, 150}   \* hundredths of R
DrawdownValues == {0, 10, 20, 24, 25, 26, 30, 50}     \* hundredths of R
InitialRiskValues == {0, 100}

\* mutant: progress must exceed the threshold
Eligible_StrictProgress(current_progress, max_drawdown) ==
    current_progress > ProgressThreshold /\ max_drawdown <= DrawdownLimit

\* sizing.py:146-147
Eligible(current_progress, max_drawdown) ==
    current_progress >= ProgressThreshold /\ max_drawdown <= DrawdownLimit

\* sizing.py:133-164
check_add_eligibility(current_progress, max_drawdown, initial_risk) ==
    LET eligible == Eligible(current_progress, max_drawdown)
        advance == eligible /\ atw_state = "initial"
    IN  /\ atw_state' = IF advance THEN "add_1" ELSE atw_state
        /\ result' = [op |-> "check_add_eligibility", eligible |-> eligible,
                      current_state |-> atw_state',
                      progress |-> current_progress, drawdown |-> max_drawdown,
                      \* sizing.py:160,169: initial_risk * progress * 0.5, None when 0
                      has_new_breakeven |-> advance /\ initial_risk * current_progress # 0]
        /\ lastOp' = "check_add_eligibility"
        /\ UNCHANGED <<now, sentinelVars, calibVars, supervisorVars, emergency_active, extVars>>

CheckAddEligibility ==
    \E pr \in ProgressValues, dd \in DrawdownValues, ir \in InitialRiskValues :
        check_add_eligibility(pr, dd, ir)

\* ========================================================= Position sizing
\* Decimal quantities are exact rationals [n, d] in lowest terms with d > 0.
\* The inputs below are chosen so that every Decimal quotient of the code is
\* either exact at 28 digits or far from an integer, so that rounding at 28
\* significant digits cannot change a comparison or the final floor.
RECURSIVE GCD(_, _)
GCD(a, b) == IF b = 0 THEN a ELSE GCD(b, a % b)

Rat(n, d) ==
    LET g == GCD(Abs(n), Abs(d))
        sgn == IF d < 0 THEN -1 ELSE 1
    IN  [n |-> sgn * (n \div g), d |-> sgn * (d \div g)]

RMul(a, b) ==
    LET x == Rat(a.n, b.d)
        y == Rat(b.n, a.d)
    IN  Rat(x.n * y.n, x.d * y.d)

RDiv(a, b) == RMul(a, Rat(b.d, b.n))

RSub(a, b) == Rat(a.n * b.d - b.n * a.d, a.d * b.d)

RAdd(a, b) == Rat(a.n * b.d + b.n * a.d, a.d * b.d)

RAbs(a) == [n |-> Abs(a.n), d |-> a.d]

\* a <= b for non-negative rationals: whole parts first, then the fractions
RLeq(a, b) ==
    IF a.n \div a.d # b.n \div b.d
    THEN a.n \div a.d < b.n \div b.d
    ELSE (a.n % a.d) * b.d <= (b.n % b.d) * a.d

RMin(a, b) == IF RLeq(a, b) THEN a ELSE b

\* mutant: quantize rounds to the nearest whole number, halves upward
RoundDown_Nearest(a) == (2 * a.n + a.d) \div (2 * a.d)

\* quantize(Decimal('1'), rounding=ROUND_DOWN): truncation toward zero
RoundDown(a) == IF a.n >= 0 THEN a.n \div a.d ELSE -((-a.n) \div a.d)

Instruments == {"XAUUSD", "USDJPY"}
QuoteCurrency(instrument) == IF instrument = "XAUUSD" THEN "USD" ELSE "JPY"
Balances == {0, 1000, 10000}
EntryPrices == {Rat(5, 4), Rat(160, 1), Rat(2600, 1)}
StopOffsetsPips == {-20, 0, 1}             \* stop_loss - entry_price, in pips
KellyFractions == {None, 0, 15, 25, 40}     \* hundredths; None when not given
GssiScores == {None, 60, 80}                \* hundredths; None when not given

\* sizing.py:98-108
_get_pip_value(instrument, price) ==
    IF QuoteCurrency(instrument) = "USD"
    THEN Rat(1, 1)
    ELSE RMul(RDiv(Rat(1, 1), price), Rat(PipScale, 1))

\* mutant: the highest stress tier is not reduced
_calculate_gssi_multiplier_HighUnreduced(gssi_score) ==
    IF gssi_score >= 80 THEN Rat(1, 1)
    ELSE IF gssi_score >= 60 THEN Rat(3, 4)
    ELSE Rat(1, 1)

\* sizing.py:110-120
_calculate_gssi_multiplier(gssi_score) ==
    IF gssi_score >= 80 THEN Rat(1, 2)
    ELSE IF gssi_score >= 60 THEN Rat(3, 4)
    ELSE Rat(1, 1)

\* "if kelly_fraction:" and "if gssi_score:" are false for None and for zero
Truthy(x) == x # None /\ x # 0

\* sizing.py:58-60
UnitsNotional(account_balance, entry_price) ==
    RDiv(Rat(account_balance * MaxLeverage, 1), entry_price)

\* sizing.py:35-96
SizeOf(account_balance, instrument, entry_price, stop_loss, kelly_fraction, gssi_score) ==
    LET pip_value == _get_pip_value(instrument, entry_price)
        stop_distance_pips == RMul(RAbs(RSub(entry_price, stop_loss)), Rat(PipScale, 1))
        risk_amount == Rat(account_balance * MaxRiskPct, 100)
        units_risk0 == RDiv(risk_amount, RMul(stop_distance_pips, pip_value))
        units_notional == UnitsNotional(account_balance, entry_price)
        kelly_capped == IF Truthy(kelly_fraction)
                        THEN (IF kelly_fraction <= KellyLiteCap THEN kelly_fraction
                              ELSE KellyLiteCap)
                        ELSE kelly_fraction
        units_risk1 == IF Truthy(kelly_fraction)
                       THEN RMul(units_risk0, Rat(kelly_capped, 100)) ELSE units_risk0
        units_risk == IF Truthy(gssi_score)
                      THEN RMul(units_risk1, _calculate_gssi_multiplier(gssi_score))
                      ELSE units_risk1
        final_units == RoundDown(RMin(units_risk, units_notional))
    IN  [units_risk_base |-> units_risk0,
         units_risk |-> units_risk, units_notional |-> units_notional,
         \* sizing.py:84: float(kelly_capped) if kelly_capped else None
         kelly_fraction |-> IF Truthy(kelly_capped) THEN kelly_capped ELSE None,
         units |-> final_units,
         leverage |-> RDiv(RMul(Rat(final_units, 1), entry_price),
                           Rat(account_balance, 1))]

\* sizing.py:35-96; a zero stop distance makes the Decimal division of line
\* 56 raise, a zero balance the one of line 85
calculate_position_size(account_balance, instrument, entry_price, stop_offset, kelly_fraction, gssi_score) ==
    LET stop_loss == RSub(entry_price, Rat(-stop_offset, PipScale))
        raised == stop_offset = 0 \/ account_balance = 0
        inputs == [op |-> "calculate_position_size",
                   account_balance |-> account_balance, instrument |-> instrument,
                   entry_price |-> entry_price, stop_loss |-> stop_loss,
                   kelly_fraction |-> kelly_fraction, gssi_score |-> gssi_score,
                   raised |-> raised]
    IN  /\ result' = IF raised THEN inputs
                     ELSE [sizing |-> SizeOf(account_balance, instrument, entry_price,
                                             stop_loss, kelly_fraction, gssi_score)]
                          @@ inputs
        /\ lastOp' = "calculate_position_size"
        /\ UNCHANGED <<now, sentinelVars, calibVars, supervisorVars, guardVars, extVars>>

CalculatePositionSize ==
    \E b \in Balances, i \in Instruments, e \in EntryPrices, so \in StopOffsetsPips,
       k \in KellyFractions, g \in GssiScores :
        calculate_position_size(b, i, e, so, k, g)

\* gssi scores across the tiers of the multiplier, hundredths
GssiLadder == {0, 30, 59, 60, 79, 80, 100}

\* sizing calls that differ in their gssi_score
CalculateAcrossGssi ==
    \E i \in Instruments, e \in EntryPrices, so \in {-20, 1}, k \in {None, 25},
       g \in GssiLadder :
        calculate_position_size(10000, i, e, so, k, g)

\* min(1.0, max(0.0, x))
Clamp01(x) ==
    IF x.n < 0 THEN Rat(0, 1) ELSE IF x.n > x.d THEN Rat(1, 1) ELSE x

\* round(x, 4) in ten-thousandths, halves to the even neighbour
Round4(x) ==
    LET q == (x.n * 10000) \div x.d
        rem == x.n * 10000 - q * x.d
    IN  IF 2 * rem > x.d THEN q + 1
        ELSE IF 2 * rem < x.d THEN q
        ELSE IF q % 2 = 0 THEN q ELSE q + 1

\* market_data: "vix" in points, the mean of "correlations" and of "spreads" and
\* "momentum_breakdown" in hundredths; None when the key is missing (or the
\* dictionary empty)
VixLevels == {None, 0, 12, 37, 62, 100}
AvgCorrelations == {None, -50, 30, 60, 90, 100}
AvgSpreads == {None, 50, 100, 300, 500, 900}
MomentumBreakdowns == {None, -50, 0, 30, 100, 200}

\* gssi_car_engine.py:38-88
calculate_gssi_score(vix, correlations, spreads, momentum_breakdown) ==
    LET vix_level == IF vix = None THEN 20 ELSE vix
        vix_stress == Clamp01(Rat(vix_level - 12, 50))
        avg_correlation == IF correlations = None THEN 60 ELSE correlations
        correlation_stress == Clamp01(Rat(avg_correlation - 30, 60))
        avg_spread == IF spreads = None THEN 150 ELSE spreads
        liquidity_stress == Clamp01(Rat(avg_spread - 100, 500 - 100))
        momentum_signals == IF momentum_breakdown = None THEN Rat(30, 100)
                            ELSE Rat(momentum_breakdown, 100)
        gssi_score == RAdd(RAdd(RMul(Rat(30, 100), vix_stress),
                                RMul(Rat(25, 100), correlation_stress)),
                           RAdd(RMul(Rat(25, 100), liquidity_stress),
                                RMul(Rat(20, 100), momentum_signals)))
    IN  /\ result' = [op |-> "calculate_gssi_score",
                      gssi_score |-> Round4(gssi_score),
                      vix_stress |-> Round4(vix_stress),
                      correlation_stress |-> Round4(correlation_stress),
                      liquidity_stress |-> Round4(liquidity_stress),
                      momentum_breakdown |-> Round4(momentum_signals)]
        /\ lastOp' = "calculate_gssi_score"
        /\ UNCHANGED <<now, baseVars, extVars>>

CalculateGssiScore ==
    \E vix \in VixLevels, correlations \in AvgCorrelations, spreads \in AvgSpreads, momentum_breakdown \in MomentumBreakdowns :
        calculate_gssi_score(vix, correlations, spreads, momentum_breakdown)

\* gssi_car_engine.py:140-147: the GSSI factor of the leverage adjustment
LeverageGssiMultiplier(gssi_score) ==
    IF gssi_score >= 80 THEN Rat(4, 10)
    ELSE IF gssi_score >= 60 THEN Rat(6, 10)
    ELSE IF gssi_score >= 40 THEN Rat(8, 10)
    ELSE Rat(1, 1)

\* gssi_car_engine.py:150-155
LeverageCarMultiplier(car_score) ==
    IF car_score >= 70 THEN Rat(1, 2)
    ELSE IF car_score >= 50 THEN Rat(3, 4)
    ELSE Rat(1, 1)

BaseLeverages == {10, 50, 100}
LeverageGssiScores == GssiLadder \cup {39, 40}
CarScores == {0, 49, 50, 70}

\* gssi_car_engine.py:131-177
apply_dynamic_leverage_adjustment(base_leverage, gssi_score, car_score) ==
    LET gssi_multiplier == LeverageGssiMultiplier(gssi_score)
        car_multiplier == LeverageCarMultiplier(car_score)
        combined_multiplier == RMul(gssi_multiplier, car_multiplier)
        adjusted_leverage == RMul(Rat(base_leverage, 1), combined_multiplier)
    IN  /\ result' = [op |-> "apply_dynamic_leverage_adjustment",
                      base_leverage |-> base_leverage, gssi_score |-> gssi_score,
                      car_score |-> car_score, gssi_multiplier |-> gssi_multiplier,
                      car_multiplier |-> car_multiplier,
                      combined_multiplier |-> combined_multiplier,
                      adjusted_leverage |-> adjusted_leverage,
                      final_leverage |-> RMin(adjusted_leverage, Rat(MaxLeverage, 1))]
        /\ lastOp' = "apply_dynamic_leverage_adjustment"
        /\ UNCHANGED <<now, baseVars, extVars>>

ApplyDynamicLeverageAdjustment ==
    \E base_leverage \in BaseLeverages, gssi_score \in LeverageGssiScores, car_score \in CarScores :
        apply_dynamic_leverage_adjustment(base_leverage, gssi_score, car_score)

\* ============================================================= House money
HouseNavs == {0, 1, 3, 500, 5000, 9999, 10000, 25000}
\* day_profit_pct in 1/10000
DayProfits == {-200, -1, 0, 1, 199, 200, 201, 349, 350, 351, 400, 499, 500, 501, 1000}

\* house_money.py:4-18
compute(nav, day_profit_pct) ==
    LET base == Rat(nav * HouseBasePct, 100)
        profit == Rat(nav * HouseProfitPct, 100)
    IN  IF day_profit_pct < BaseOnlyBelow THEN base
        ELSE IF day_profit_pct < ProfitOnlyBelow THEN profit
        ELSE RMin(Rat(nav, 1),
                  RAdd(profit, RDiv(RMul(base, Rat(day_profit_pct - ProfitOnlyBelow, 1)),
                                    Rat(ReAddSpan, 1))))

\* sizing.py:19-21
trade_bank(nav, day_profit_pct) ==
    /\ result' = [op |-> "trade_bank", nav |-> nav, day_profit_pct |-> day_profit_pct,
                  allocation |-> compute(nav, day_profit_pct)]
    /\ lastOp' = "trade_bank"
    /\ UNCHANGED <<now, baseVars, extVars>>

TradeBank == \E nav \in HouseNavs, p \in DayProfits : trade_bank(nav, p)

\* ========================================================== Market regime
\* features in tenths, regime scores and confidence in hundredths
VolatilityValues == {0, 5, 10}
TrendValues == {-10, 0, 10}
VolumeTrendValues == {-10, 0, 10}
CrisisValues == {0, 5, 8, 10}

\* gssi_car_engine.py:15-21: MarketRegime in declaration order, which is the
\* insertion order of regime_scores
Regimes == <<"trending_bull", "trending_bear", "ranging_high_vol", "ranging_low_vol",
             "crisis_mode", "recovery_mode">>

Max0(x) == IF x > 0 THEN x ELSE 0

\* gssi_car_engine.py:209-242
RegimeScores(volatility, trend_strength, volume_trend, crisis_indicators) ==
    [trending_bull |-> Max0(trend_strength) * 4 + (10 - volatility) * 3
                       + Max0(volume_trend) * 3,
     trending_bear |-> Max0(-trend_strength) * 4 + volatility * 3
                       + Max0(-volume_trend) * 3,
     ranging_high_vol |-> (10 - Abs(trend_strength)) * 5 + volatility * 5,
     ranging_low_vol |-> (10 - Abs(trend_strength)) * 6 + (10 - volatility) * 4,
     crisis_mode |-> crisis_indicators * 10,
     recovery_mode |-> Max0(10 - crisis_indicators) * Max0(trend_strength + volume_trend)]

\* gssi_car_engine.py:245: max(keys, key=score), the first of the best in order
BestRegime(regime_scores) ==
    LET best == CHOOSE i \in 1..Len(Regimes) :
                   /\ \A j \in 1..Len(Regimes) :
                         regime_scores[Regimes[j]] <= regime_scores[Regimes[i]]
                   /\ \A j \in 1..(i - 1) :
                         regime_scores[Regimes[j]] < regime_scores[Regimes[i]]
    IN  Regimes[best]

\* mutant: the margin is tripled
Confidence_Tripled(regime_scores) ==
    LET best == BestRegime(regime_scores)
        second == CHOOSE r \in (DOMAIN regime_scores) \ {best} :
                     \A q \in (DOMAIN regime_scores) \ {best} :
                        regime_scores[q] <= regime_scores[r]
        margin == regime_scores[best] - regime_scores[second]
    IN  IF 3 * margin > 100 THEN 100 ELSE 3 * margin

\* gssi_car_engine.py:249-251: margin of the best over sorted_scores[1], doubled
\* and capped at 1.0
Confidence(regime_scores) ==
    LET best == BestRegime(regime_scores)
        second == CHOOSE r \in (DOMAIN regime_scores) \ {best} :
                     \A q \in (DOMAIN regime_scores) \ {best} :
                        regime_scores[q] <= regime_scores[r]
        margin == regime_scores[best] - regime_scores[second]
    IN  IF 2 * margin > 100 THEN 100 ELSE 2 * margin

\* mutant: the threshold itself is not enough
ConfidenceMet_Strict(confidence) == confidence > ConfidenceThreshold

\* gssi_car_engine.py:255
ConfidenceMet(confidence) == confidence >= ConfidenceThreshold

\* gssi_car_engine.py:195-274
classify_market_regime(volatility, trend_strength, volume_trend, crisis_indicators) ==
    LET regime_scores == RegimeScores(volatility, trend_strength, volume_trend,
                                      crisis_indicators)
        best_regime == BestRegime(regime_scores)
        confidence == Confidence(regime_scores)
    IN  /\ IF ConfidenceMet(confidence)
           THEN /\ current_regime' = best_regime
                /\ regime_confidence' = confidence
           ELSE UNCHANGED <<current_regime, regime_confidence>>
        /\ result' = [op |-> "classify_market_regime",
                      previous_regime |-> current_regime,
                      current_regime |-> current_regime',
                      regime_changed |-> current_regime # current_regime',
                      confidence |-> confidence,
                      regime_scores |-> regime_scores]
        /\ lastOp' = "classify_market_regime"
        /\ UNCHANGED <<now, baseVars, traceVars, adapterVars, monitorVars, execVars>>

ClassifyMarketRegime ==
    \E v \in VolatilityValues, t \in TrendValues, vt \in VolumeTrendValues,
       c \in CrisisValues : classify_market_regime(v, t, vt, c)

\* features across their nominal ranges: volatility and crisis_score in [0,1],
\* trend_strength and volume_trend in [-1,1]
NominalVolatility == {0, 2, 10}
NominalTrend == {-10, 0, 5, 10}
NominalVolumeTrend == {-10, -8, 0, 10}
NominalCrisis == {0, 5, 10}

ClassifyNominal ==
    \E v \in NominalVolatility, t \in NominalTrend, vt \in NominalVolumeTrend, c \in NominalCrisis :
        classify_market_regime(v, t, vt, c)

\* =========================================================== Order adapter
OrderSides == {"buy", "sell"}
OrderUnits == {0, 1000, 600000}
StopLevels == {0, 1}          \* order.get('sl') / order.get('tp'): missing or set
OrderNavs == {10000}          \* nav: float = 10000
OrderPrices == {1}            \* price: float = 1.0

Orders ==
    [instrument : Instruments, side : OrderSides, units : OrderUnits,
     sl : StopLevels, tp : StopLevels]

\* oanda_adapter.py:15-23
_is_duplicate(order) ==
    \E i \in 1..Len(last_orders) :
        /\ last_orders[i].instrument = order.instrument
        /\ last_orders[i].side = order.side
        /\ last_orders[i].units = order.units

\* oanda_adapter.py:25-30
_is_hedge(order) ==
    IF order.instrument \notin DOMAIN open_positions
    THEN FALSE
    ELSE LET pos == open_positions[order.instrument]
         IN  pos.side # order.side /\ pos.size > 0

\* oanda_adapter.py:32-36: exposure / nav <= 50, leverage 0 when nav is not positive
_leverage_ok(order, nav, price) ==
    IF nav > 0 THEN Abs(order.units) * price <= AdapterLeverageCap * nav ELSE TRUE

\* oanda_adapter.py:40-47: the first gate that blocks the order, "none" if none
BlockReason(order, nav, price) ==
    IF _is_duplicate(order) THEN "duplicate_order"
    ELSE IF _is_hedge(order) THEN "anti_hedging"
    ELSE IF ~_leverage_ok(order, nav, price) THEN "leverage_exceeded"
    ELSE IF order.sl = 0 \/ order.tp = 0 THEN "missing_sl_tp"
    ELSE "none"

\* mutant: the SL/TP gate is evaluated after the order has been recorded
RecordsOrder_BeforeSlTp(reason) == reason \in {"none", "missing_sl_tp"}

\* oanda_adapter.py:48-56: the code after the gates runs only for an unblocked order
RecordsOrder(reason) == reason = "none"

\* oanda_adapter.py:38-57
place_order(order, nav, price) ==
    LET reason == BlockReason(order, nav, price)
        \* lines 49-51: the caller's dict gets an id and a timestamp
        stamped == [id |-> Len(last_orders) + 1, stamped |-> TRUE] @@ order
    IN  /\ Len(last_orders) < MaxOrders
        /\ IF RecordsOrder(reason)
           THEN /\ last_orders' = Append(last_orders, stamped)
                /\ open_positions' =
                      [i \in (DOMAIN open_positions) \cup {order.instrument} |->
                          IF i = order.instrument
                          THEN [side |-> order.side, size |-> Abs(order.units)]
                          ELSE open_positions[i]]
           ELSE UNCHANGED <<last_orders, open_positions>>
        /\ result' = [op |-> "place_order",
                      status |-> IF reason = "none" THEN "submitted" ELSE "blocked",
                      reason |-> reason,
                      order |-> order, nav |-> nav, price |-> price,
                      order_after |-> IF RecordsOrder(reason) THEN stamped ELSE order]
        /\ lastOp' = "place_order"
        /\ UNCHANGED <<now, baseVars, traceVars, regimeVars, monitorVars, execVars>>

PlaceOrder ==
    \E order \in Orders, nav \in OrderNavs, price \in OrderPrices :
        place_order(order, nav, price)

\* nav and price as a caller may pass them; a closed or wiped-out account has
\* nav = 0 or below
AccountNavs == {-100, 0, 10000}
QuotedPrices == {1, 2}

PlaceOrderAtNav ==
    \E order \in {o \in Orders : o.sl = o.tp}, nav \in AccountNavs, price \in QuotedPrices :
        place_order(order, nav, price)

\* ========================================================= Signal monitoring
\* config.py:7
ConfigInstruments == <<"EUR_USD", "GBP_USD", "USD_JPY">>

\* signal_engine.py:52-106: how one check ends: an early return (58-96), no
\* signal, an alert, an Exception raised by a step of the body, or the
\* CancelledError of a cancelled task raised at one of its awaits
CheckOutcomes == {"early_return", "no_signal", "alert", "Exception", "CancelledError"}

\* what the collaborators of one check hand back: oanda_client.py:261-308
\* (positions; {} when the request failed), 144-167 (price; None on failure),
\* 169-194 (spread; None on failure), 196-236 (candles; None on failure);
\* "raise" is a positions call that lets its exception out
PositionsResults == {"has_position", "flat", "empty", "raise"}
PriceResults == {"value", "none"}
SpreadResults == {"narrow", "wide", "none"}
CandlesResults == {"enough", "short", "none"}
SignalStrengths == {-1, 0, 1}

FetchInputs ==
    [positions : PositionsResults, price : PriceResults, spread : SpreadResults,
     weekend : BOOLEAN, candles : CandlesResults, correlation_ok : BOOLEAN,
     signal_strength : SignalStrengths]

\* signal_engine.py:54-106: the body of one check, step by step
check_outcome(instrument, fetch) ==
    IF fetch.positions = "raise" THEN "Exception"
    ELSE IF fetch.positions = "has_position" THEN "early_return"
    ELSE IF fetch.price = "none" THEN "early_return"
    ELSE IF fetch.spread = "wide" THEN "early_return"
    ELSE IF fetch.weekend THEN "early_return"
    ELSE IF fetch.candles \in {"none", "short"} THEN "early_return"
    ELSE IF instrument = "EUR_USD" /\ ~fetch.correlation_ok THEN "early_return"
    ELSE IF fetch.signal_strength # 0 THEN "alert"
    ELSE "no_signal"

\* signal_engine.py:52-106: one check on its own; it assigns no field of the
\* SignalEngine
check_signals(instrument, fetch) ==
    /\ result' = [op |-> "check_signals", instrument |-> instrument, fetch |-> fetch,
                  outcome |-> check_outcome(instrument, fetch)]
    /\ lastOp' = "check_signals"
    /\ UNCHANGED <<now, baseVars, extVars>>

CheckSignals ==
    \E k \in 1..Len(ConfigInstruments), fetch \in FetchInputs :
        check_signals(ConfigInstruments[k], fetch)

\* the exception a check outcome raises inside the try block
Raised(outcome) ==
    IF outcome \in {"Exception", "CancelledError"} THEN outcome ELSE "none"

\* mutant: the check has no handler of its own
CheckCatches_Nothing(raised) == FALSE

\* signal_engine.py:105: except Exception
CheckCatches(raised) == raised = "Exception"

\* signal_engine.py:48: except Exception
LoopCatches(raised) == raised = "Exception"

\* the loop task followed step by step is alive
LoopAlive == loop_pc \in {"checking", "sleeping", "backoff"}

\* the _monitoring_loop tasks of this SignalEngine that have not returned
RunningLoops == (IF LoopAlive THEN 1 ELSE 0) + other_loops

\* signal_engine.py:25-31: create_task starts a loop on every call; it enters
\* its first pass since monitoring is True. The task is followed step by step
\* when no earlier one is, and counted in other_loops otherwise
start_monitoring ==
    /\ IF LoopAlive THEN other_loops < MaxLoops ELSE passes < MaxPasses
    /\ monitoring' = TRUE
    /\ IF LoopAlive
       THEN /\ other_loops' = other_loops + 1
            /\ UNCHANGED <<loop_pc, next_instrument, pass_checked, passes>>
       ELSE /\ loop_pc' = "checking"
            /\ next_instrument' = 1
            /\ pass_checked' = <<>>
            /\ passes' = passes + 1
            /\ UNCHANGED other_loops
    /\ lastOp' = "start_monitoring"
    /\ result' = NoResult
    /\ UNCHANGED <<now, baseVars, traceVars, execVars, regimeVars, adapterVars>>

\* signal_engine.py:33-36
stop_monitoring ==
    /\ monitoring
    /\ monitoring' = FALSE
    /\ lastOp' = "stop_monitoring"
    /\ result' = NoResult
    /\ UNCHANGED <<now, baseVars, traceVars, execVars, regimeVars, adapterVars, loop_pc, next_instrument,
                   pass_checked, passes, other_loops>>

\* signal_engine.py:42-43,52-106: one iteration of the for loop, with what
\* follows it when the iteration is the last of the pass (45-46) or when the
\* check lets an exception out (48-50)
_check_instrument_signals(instrument, outcome) ==
    LET raised == Raised(outcome)
        escaped == IF raised # "none" /\ ~CheckCatches(raised) THEN raised ELSE "none"
        logged == IF raised # "none" /\ CheckCatches(raised) THEN "signal_check_failed"
                  ELSE "none"
    IN  /\ pass_checked' = Append(pass_checked,
                              [instrument |-> instrument, raised |-> raised])
        /\ IF escaped = "none"
           THEN /\ next_instrument' = next_instrument + 1
                /\ loop_pc' = IF next_instrument = Len(ConfigInstruments)
                              THEN "sleeping" ELSE "checking"
           ELSE /\ next_instrument' = next_instrument
                /\ loop_pc' = IF LoopCatches(escaped) THEN "backoff" ELSE "cancelled"
        /\ result' = [op |-> "_check_instrument_signals", instrument |-> instrument,
                      outcome |-> outcome, logged |-> logged, escaped |-> escaped]
        /\ lastOp' = "_check_instrument_signals"
        /\ UNCHANGED <<now, baseVars, traceVars, execVars, regimeVars, adapterVars, monitoring, passes,
                       other_loops>>

CheckInstrument ==
    /\ loop_pc = "checking"
    /\ next_instrument <= Len(ConfigInstruments)
    /\ \E outcome \in CheckOutcomes :
          _check_instrument_signals(ConfigInstruments[next_instrument], outcome)

\* signal_engine.py:40,46,50: the sleep ends and the while condition is tested
_monitoring_loop ==
    /\ loop_pc \in {"sleeping", "backoff"}
    /\ monitoring => passes < MaxPasses
    /\ IF monitoring
       THEN /\ loop_pc' = "checking"
            /\ next_instrument' = 1
            /\ pass_checked' = <<>>
            /\ passes' = passes + 1
       ELSE /\ loop_pc' = "finished"
            /\ UNCHANGED <<next_instrument, pass_checked, passes>>
    /\ lastOp' = "_monitoring_loop"
    /\ result' = NoResult
    /\ UNCHANGED <<now, baseVars, traceVars, execVars, regimeVars, adapterVars, monitoring, other_loops>>

\* signal_engine.py:40: one of the other loop tasks tests its while condition
\* and returns; while monitoring is True it goes on with its next pass
_monitoring_loop_returns ==
    /\ other_loops > 0
    /\ ~monitoring
    /\ other_loops' = other_loops - 1
    /\ lastOp' = "_monitoring_loop_returns"
    /\ result' = NoResult
    /\ UNCHANGED <<now, baseVars, traceVars, execVars, regimeVars, adapterVars, monitoring, loop_pc,
                   next_instrument, pass_checked, passes>>

\* ================================================================= Tracing
\* the instruments whose pipeline cycles run on the thread
TraceInstruments == {"EURUSD", "GBPUSD"}

\* the events of SystemLogger that are built on _base_event
AuditEvents == {"guardrail_check", "supervisor_decision"}

\* trace_logger.py:32-33: the thread's trace id, a fresh uuid4 when none is set
get_trace_id == IF local_trace_id = None THEN uuids_drawn + 1 ELSE local_trace_id

\* trace_logger.py:181-191: entering the context manager: new_trace (39-43)
\* draws a uuid4 and stores it in the thread-local; PIPELINE_START carries it
trace_pipeline_enter(instrument) ==
    /\ cycle_trace_id[instrument] = None
    /\ uuids_drawn < MaxTraces
    /\ uuids_drawn' = uuids_drawn + 1
    /\ local_trace_id' = uuids_drawn + 1
    /\ cycle_trace_id' = [cycle_trace_id EXCEPT ![instrument] = uuids_drawn + 1]
    /\ result' = [op |-> "trace_pipeline", event |-> "PIPELINE_START",
                  instrument |-> instrument, trace_id |-> uuids_drawn + 1,
                  cycle |-> uuids_drawn + 1]
    /\ lastOp' = "trace_pipeline_enter"
    /\ UNCHANGED <<now, baseVars, regimeVars, adapterVars, monitorVars, execVars>>

\* trace_logger.py:71-81 and the log_* methods: an audit event emitted inside
\* the cycle of the instrument takes its trace id from the thread-local
_base_event(instrument, event) ==
    /\ cycle_trace_id[instrument] # None
    /\ result' = [op |-> "_base_event", event |-> event, instrument |-> instrument,
                  trace_id |-> get_trace_id, cycle |-> cycle_trace_id[instrument]]
    /\ uuids_drawn' = IF local_trace_id = None THEN uuids_drawn + 1 ELSE uuids_drawn
    /\ lastOp' = "_base_event"
    /\ UNCHANGED <<now, baseVars, regimeVars, adapterVars, monitorVars, execVars,
                   local_trace_id, cycle_trace_id>>

\* trace_logger.py:192-209: leaving the context manager: PIPELINE_END carries
\* the trace id held in the local variable; the thread-local is left as it is
trace_pipeline_exit(instrument) ==
    /\ cycle_trace_id[instrument] # None
    /\ cycle_trace_id' = [cycle_trace_id EXCEPT ![instrument] = None]
    /\ result' = [op |-> "trace_pipeline", event |-> "PIPELINE_END",
                  instrument |-> instrument, trace_id |-> cycle_trace_id[instrument],
                  cycle |-> cycle_trace_id[instrument]]
    /\ lastOp' = "trace_pipeline_exit"
    /\ UNCHANGED <<now, baseVars, regimeVars, adapterVars, monitorVars, execVars,
                   local_trace_id, uuids_drawn>>

TracePipelineEnter == \E instrument \in TraceInstruments : trace_pipeline_enter(instrument)

BaseEvent ==
    \E instrument \in TraceInstruments, event \in AuditEvents : _base_event(instrument, event)

TracePipelineExit == \E instrument \in TraceInstruments : trace_pipeline_exit(instrument)

\* ============================================================ construction
InitBase(weights) ==
    /\ now = 0
    /\ lastOp = "init"
    /\ mode = "stand_down"
    /\ mode_start_time = None
    /\ last_assessment = NoAssessment
    /\ system_state = "normal"
    /\ weight_lock_start = None
    /\ nAdds = 0
    /\ result = NoResult
    /\ pending_tasks = 0
    /\ base_weights = weights
    /\ current_weights = [w |-> weights, total |-> 100]
    /\ emergency_active = FALSE
    /\ atw_state = "initial"
    /\ current_regime = "ranging_low_vol"
    /\ regime_confidence = 50
    /\ last_orders = <<>>
    /\ open_positions = [i \in {} |-> 0]
    /\ monitoring = FALSE
    /\ loop_pc = "not_started"
    /\ next_instrument = 1
    /\ pass_checked = <<>>
    /\ passes = 0
    /\ other_loops = 0
    /\ local_trace_id = None
    /\ cycle_trace_id = [i \in TraceInstruments |-> None]
    /\ uuids_drawn = 0
    /\ execution_history = <<>>
    /\ route_diversion_active = FALSE

InitCommon == InitBase(BaseWeights)

InitSentinel == InitCommon /\ prediction_history = <<>>

NextSentinel == Assess \/ TickSentinel

SpecSentinel == InitSentinel /\ [][NextSentinel]_vars


InitCalib == InitCommon /\ prediction_history \in InitHistories

NextCalib ==
    \/ AddPredictionOutcome
    \/ calculate_ece
    \/ check_weight_lock_status
    \/ perform_isotonic_recalibration
    \/ TickCalib

SpecCalib == InitCalib /\ [][NextCalib]_vars

\* histories at and just under the cap, whose oldest records are the wins
FullHistories ==
    {History(n, p, k) : n \in {HistoryCap - 2, HistoryCap - 1, HistoryCap},
                        p \in PredValues, k \in 1..8}

InitHistory == InitCommon /\ prediction_history \in FullHistories

\* the auditor with an ExecutionQualityMonitor beside it
InitStates ==
    InitCommon /\ prediction_history \in {History(20, 95, 17), History(100, 95, 80)}

\* the wall clock of these scenarios: the lock duration passes in one step
TickStates ==
    /\ now < WeightLockDuration
    /\ now' = WeightLockDuration
    /\ lastOp' = "tick"
    /\ result' = NoResult
    /\ UNCHANGED <<sentinelVars, calibVars, supervisorVars, guardVars, extVars>>

NextStates ==
    \/ calculate_ece
    \/ check_weight_lock_status
    \/ perform_isotonic_recalibration
    \/ TickStates
    \/ RecordExecution
    \/ assess_execution_quality
    \/ reset_route_diversion

SpecStates == InitStates /\ [][NextStates]_vars

\* the auditor on its own, without new predictions: the clock advances and
\* both the lock check and the recalibration are called again and again
NextLock ==
    \/ calculate_ece
    \/ check_weight_lock_status
    \/ perform_isotonic_recalibration
    \/ TickCalib

FairLock ==
    /\ WF_vars(TickCalib)
    /\ WF_vars(check_weight_lock_status)
    /\ WF_vars(perform_isotonic_recalibration)

SpecLock == InitStates /\ [][NextLock]_vars /\ FairLock

SpecHistory == InitHistory /\ [][AddPredictionOutcome]_vars

InitSupervisor ==
    InitCommon /\ prediction_history = History(20, 95, 17)

NextSupervisor ==
    \/ Score
    \/ RunScheduledTask
    \/ AssessForSupervisor
    \/ calculate_ece

SpecSupervisor == InitSupervisor /\ [][NextSupervisor]_vars

\* regime classifications of the weight scenarios: into ranging_low_vol,
\* crisis_mode and recovery_mode
ClassifyForSupervisor ==
    \/ classify_market_regime(0, 0, 0, 0)
    \/ classify_market_regime(0, -10, 0, 10)
    \/ classify_market_regime(0, 10, 10, 0)

InitWeights ==
    \E weights \in BaseWeightChoices : InitBase(weights) /\ prediction_history = <<>>

NextWeights ==
    \/ ScoreWithWeights
    \/ RunScheduledTask
    \/ ClassifyForSupervisor

SpecWeights == InitWeights /\ [][NextWeights]_vars

InitGuards == InitCommon /\ prediction_history = <<>>

SpecLiquidity == InitGuards /\ [][CheckLiquidityCliff]_vars

SpecDrawdown == InitGuards /\ [][CheckDrawdown]_vars

SpecAddToWinners == InitGuards /\ [][CheckAddEligibility]_vars

SpecSizing == InitGuards /\ [][CalculatePositionSize]_vars

SpecRegime == InitGuards /\ [][ClassifyMarketRegime]_vars

\* the Sentinel assessments and eligibility checks of the Protect scenarios
AssessForAdds ==
    \E s \in {40, 75}, r \in {"protect", "pounce"} : assess_and_update_mode(s, r)

NextPounce == AssessForAdds \/ TickSentinel \/ ApplyPounceModeEnhancements

SpecPounce == InitSentinel /\ [][NextPounce]_vars

CheckAddUnderSentinel ==
    \E pr \in {69, 70}, dd \in {25, 26}, ir \in InitialRiskValues :
        check_add_eligibility(pr, dd, ir)

NextProtectAdds ==
    \/ AssessForAdds
    \/ TickSentinel
    \/ ApplyProtectModeConstraints
    \/ CheckAddUnderSentinel

SpecProtectAdds == InitGuards /\ [][NextProtectAdds]_vars

SpecHouseMoney == InitGuards /\ [][TradeBank]_vars

SpecGssi == InitGuards /\ [][CalculateAcrossGssi]_vars

SpecGssiScore == InitGuards /\ [][CalculateGssiScore]_vars

NextBands == CalculateAcrossGssi \/ ApplyDynamicLeverageAdjustment

SpecBands == InitGuards /\ [][NextBands]_vars

SpecNominal == InitGuards /\ [][ClassifyNominal]_vars

SpecAdapter == InitGuards /\ [][PlaceOrder]_vars

SpecLeverage == InitGuards /\ [][PlaceOrderAtNav]_vars

NextMonitoring ==
    \/ start_monitoring
    \/ stop_monitoring
    \/ CheckInstrument
    \/ _monitoring_loop
    \/ _monitoring_loop_returns

SpecMonitoring == InitGuards /\ [][NextMonitoring]_vars

SpecSignalCheck == InitGuards /\ [][CheckSignals]_vars

NextTracing == TracePipelineEnter \/ BaseEvent \/ TracePipelineExit

SpecTracing == InitGuards /\ [][NextTracing]_vars

\* ================================================================== claims

\* C1: whenever the Sentinel mode is Protect or Pounce when score() is called,
\* the call invokes no scoring engine, returns score 0 and reports
\* SENTINEL_OVERRIDE, on every execution path of score().
C1_OverrideOnEveryPath ==
    (lastOp = "score" /\ result.sentinel_mode \in {"protect", "pounce"})
        => /\ result.engine_calls = 0
           /\ result.final.num = 0
           /\ result.decision = "SENTINEL_OVERRIDE"

\* C2: while the auditor is in WeightLock no score() call produces a tradable
\* entry decision: the call is blocked whatever the engines score.
C2_WeightLockBlocksScore ==
    (lastOp = "score" /\ result.calibration_state = "weight_lock")
        => \/ result.decision \notin {"NORMAL_PROCESSING", "BASIC_FALLBACK"}
           \/ result.final.num = 0

\* C3: an assessment with swan_score >= 0.70 leaves the mode Pounce when the
\* recommendation is "pounce" and Protect for every other recommendation, with
\* the timer started at that call; an assessment with swan_score < 0.70 made in
\* StandDown leaves the mode StandDown and the router override off.
C3_ThresholdAdoptsMode ==
    lastOp = "assess_and_update_mode" =>
        /\ last_assessment.swan_score >= 70 =>
              /\ mode = (IF last_assessment.llm_recommendation = "pounce"
                         THEN "pounce" ELSE "protect")
              /\ mode_start_time = now
        /\ (last_assessment.swan_score < 70
              /\ last_assessment.previous_mode = "stand_down") =>
              /\ mode = "stand_down"
              /\ ~should_override_strategy_router

\* C3 witness: a high score with an unrecognized recommendation, assessed after
\* the clock has moved, put the Sentinel in Protect
C3_Witness ==
    /\ lastOp = "assess_and_update_mode"
    /\ last_assessment.swan_score = 75
    /\ last_assessment.llm_recommendation = "pounse"
    /\ last_assessment.previous_mode = "stand_down"
    /\ mode = "protect"
    /\ now > 0

\* the ECE of the claim: the sum over the non-empty bins of
\* |mean outcome - mean prediction| * bin share exceeds 0.05, i.e.
\* sum_b |100 * O_b - S_b| > 5 * N for predictions in hundredths
ClaimEceExceeds(h) ==
    LET Term(b) == IF BinCount(h, b) = 0 THEN 0
                   ELSE Abs(100 * BinOutcomeSum(h, b) - BinPredSum(h, b))
    IN  Term(0) + Term(1) + Term(2) + Term(3) + Term(4)
          + Term(5) + Term(6) + Term(7) + Term(8) + Term(9) > 5 * Len(h)

\* C4: calculate_ece moves the auditor from Normal to WeightLock exactly when
\* the history holds at least 20 samples and the 10-bin ECE is strictly greater
\* than 0.05; otherwise a Normal auditor stays Normal.
C4_LockExactlyOnBreach ==
    [][(lastOp' = "calculate_ece" /\ system_state = "normal") =>
          IF Len(prediction_history) >= 20 /\ ClaimEceExceeds(prediction_history)
          THEN system_state' = "weight_lock"
          ELSE system_state' = "normal"]_vars

\* C4 witness: a calculate_ece call on 20 or more samples has just locked
C4_Witness ==
    /\ lastOp = "calculate_ece"
    /\ result.weight_lock_triggered
    /\ system_state = "weight_lock"
    /\ weight_lock_start = now
    /\ Len(prediction_history) >= 20

\* C5: once in WeightLock, no public operation takes the auditor out of
\* WeightLock before 48 hours have elapsed since the lock started.
C5_LockHeldFor48Hours ==
    [][(system_state = "weight_lock" /\ system_state' # "weight_lock")
          => now - weight_lock_start >= 48]_vars

\* C6: once a drawdown check of the day has reported a breach of the 5% cap,
\* every later check of the same day (same or higher day peak) still reports
\* the system as blocked, even if NAV has recovered.
C6_KillSwitchLatched ==
    [][(/\ lastOp = "check_drawdown" /\ ~result.within_cap
        /\ lastOp' = "check_drawdown" /\ result'.peak_nav >= result.peak_nav)
       => ~result'.within_cap]_vars

\* the ratio of the claim: above 4.0 (a non-positive p50 counts as above)
ClaimRatioAbove(r) ==
    IF r.spread_p50 > 0 THEN r.spread_p99 > 4 * r.spread_p50 ELSE TRUE

\* whether the previous call saw the ratio above 4.0 (no previous call: no)
ClaimWasAbove == lastOp = "check_liquidity_cliff" /\ ClaimRatioAbove(result)

\* C7: over any sequence of liquidity checks the emergency response is emitted
\* exactly on the calls where the ratio goes from not above 4.0 to above 4.0,
\* emergency_cleared exactly on the calls where it comes back, and after every
\* call emergency_active equals that call's cliff_detected.
C7_EdgeTriggered ==
    [][lastOp' = "check_liquidity_cliff" =>
        /\ (result'.emergency_actions = "cancel_and_exit")
             <=> (ClaimRatioAbove(result') /\ ~ClaimWasAbove)
        /\ (result'.emergency_actions = "emergency_cleared")
             <=> (~ClaimRatioAbove(result') /\ ClaimWasAbove)
        /\ result'.cliff_detected = ClaimRatioAbove(result')
        /\ emergency_active' = result'.cliff_detected]_vars

\* a call that sees the cliff persist after the emergency was already raised
C7_Witness ==
    /\ lastOp = "check_liquidity_cliff"
    /\ result.cliff_detected
    /\ emergency_active
    /\ result.emergency_actions = "none"

\* C8: a check is eligible exactly when progress >= 0.7R and drawdown <= 0.25R;
\* the manager leaves Initial (for Add1) only on an eligible call, and an
\* ineligible call never changes the state.
C8_EligibilityAndFirstStep ==
    [][lastOp' = "check_add_eligibility" =>
        /\ result'.eligible <=> (result'.progress >= 70 /\ result'.drawdown <= 25)
        /\ (atw_state = "initial" /\ atw_state' # "initial")
             => (result'.eligible /\ atw_state' = "add_1")
        /\ ~result'.eligible => atw_state' = atw_state
        /\ result'.current_state = atw_state']_vars

\* an eligible call at exactly 0.7R progress and 0.25R drawdown has left Initial
C8_Witness ==
    /\ lastOp = "check_add_eligibility"
    /\ result.eligible
    /\ result.progress = 70
    /\ result.drawdown = 25
    /\ result.has_new_breakeven
    /\ atw_state = "add_1"

\* the successor the claim gives each Add-to-Winners state
ClaimNextAddState(s) ==
    CASE s = "initial" -> "add_1"
      [] s = "add_1" -> "add_2"
      [] s = "add_2" -> "maxed"
      [] OTHER -> "maxed"

\* C9: every eligible check advances the machine exactly one step along
\* initial -> add_1 -> add_2 -> maxed (staying at maxed), and no check moves
\* it backwards or skips a step.
C9_OneStepPerEligibleCheck ==
    [][lastOp' = "check_add_eligibility" =>
        atw_state' = IF result'.eligible THEN ClaimNextAddState(atw_state)
                     ELSE atw_state]_vars

\* C10: with positive balance and entry price and a non-zero stop distance the
\* leverage of the sized position is at most 50, and at most 25 when the GSSI
\* score is at least 0.8.
C10_LeverageCaps ==
    (lastOp = "calculate_position_size" /\ ~result.raised) =>
        /\ result.sizing.leverage.n <= 50 * result.sizing.leverage.d
        /\ (result.gssi_score # None /\ result.gssi_score >= 80)
             => result.sizing.leverage.n <= 25 * result.sizing.leverage.d

\* u <= a, for a whole number u and a rational a
ClaimAtMost(u, a) == u * a.d <= a.n

ClaimGssiQuarters(g) ==
    IF g = None THEN 4 ELSE IF g >= 80 THEN 2 ELSE IF g >= 60 THEN 3 ELSE 4

\* C12: whenever a kelly_fraction is supplied, the risk-based units are the base
\* risk units times min(kelly_fraction, 0.25) (times the GSSI multiplier), and
\* the fraction reported is min(kelly_fraction, 0.25).
C12_KellyCappedAndApplied ==
    (/\ lastOp = "calculate_position_size" /\ ~result.raised
     /\ result.kelly_fraction # None) =>
        LET k == IF result.kelly_fraction > 25 THEN 25 ELSE result.kelly_fraction
            base == result.sizing.units_risk_base
            ur == result.sizing.units_risk
        IN  /\ result.sizing.kelly_fraction = k
            /\ ur.n * base.d * 400 = base.n * k * ClaimGssiQuarters(result.gssi_score) * ur.d

\* the scores of a classification, highest first
ClaimTopScore(sc) == CHOOSE x \in {sc[r] : r \in DOMAIN sc} : \A r \in DOMAIN sc : sc[r] <= x

\* the regimes that reach the top score
ClaimTopRegimes(sc) == {r \in DOMAIN sc : sc[r] = ClaimTopScore(sc)}

\* the second-best score: the top score again when two regimes share it
ClaimSecondScore(sc) ==
    IF Cardinality(ClaimTopRegimes(sc)) > 1 THEN ClaimTopScore(sc)
    ELSE CHOOSE x \in {sc[r] : r \in (DOMAIN sc) \ ClaimTopRegimes(sc)} :
            \A r \in (DOMAIN sc) \ ClaimTopRegimes(sc) : sc[r] <= x

\* whether min(1, 2 * (best - second best)) is at least 0.8
ClaimConfident(sc) == 2 * (ClaimTopScore(sc) - ClaimSecondScore(sc)) >= 80

\* C13: current_regime changes only in a classify_market_regime call whose
\* confidence min(1, 2 * (best - second best)) is at least 0.8, and then becomes
\* the best-scoring regime; a call with lower confidence leaves current_regime
\* and regime_confidence unchanged.
C13_RegimeHysteresis ==
    [][lastOp' = "classify_market_regime" =>
        IF ClaimConfident(result'.regime_scores)
        THEN current_regime' \in ClaimTopRegimes(result'.regime_scores)
        ELSE current_regime' = current_regime /\ regime_confidence' = regime_confidence]_vars

\* a call whose best regime differs from the current one but whose confidence
\* is below 0.8, after an earlier call has changed the regime
C13_Witness ==
    /\ lastOp = "classify_market_regime"
    /\ current_regime = "crisis_mode"
    /\ result.previous_regime = "crisis_mode"
    /\ result.confidence < 80
    /\ "crisis_mode" \notin ClaimTopRegimes(result.regime_scores)

\* C14: whenever place_order returns status blocked, last_orders and
\* open_positions are exactly as before the call and the order is unmodified.
C14_BlockedLeavesNoTrace ==
    [][(lastOp' = "place_order" /\ result'.status = "blocked") =>
        /\ result'.reason \in {"duplicate_order", "anti_hedging", "leverage_exceeded",
                               "missing_sl_tp"}
        /\ last_orders' = last_orders
        /\ open_positions' = open_positions
        /\ result'.order_after = result'.order]_vars

\* an order blocked for its missing SL/TP after another order was submitted
C14_Witness ==
    /\ lastOp = "place_order"
    /\ result.status = "blocked"
    /\ result.reason = "missing_sl_tp"
    /\ Len(last_orders) > 0

\* C15: all submitted orders of one instrument are on the same side: once an
\* order has been submitted on an instrument, every later order on the opposite
\* side of that instrument is blocked with reason anti_hedging.
C15_NoOppositeSides ==
    [][(/\ lastOp' = "place_order"
        /\ \E i \in 1..Len(last_orders) :
              /\ last_orders[i].instrument = result'.order.instrument
              /\ last_orders[i].side # result'.order.side)
       => (result'.status = "blocked" /\ result'.reason = "anti_hedging")]_vars

\* C16: when an engine raises or returns a result of an unrecognized type
\* while a score() call evaluates the engines, the call records that engine
\* with score 0 and a reason, records every engine that answered with the
\* score it returned, and returns a decision
ClaimEngineFailed(e) == result.engine_results[e].kind \in {"unknown", "raise"}

C17_OneAuditEventPerCall ==
    lastOp = "score" =>
        /\ result.audit_events = 1
        /\ result.audit_decision = result.decision
        /\ result.audit_final = result.final

\* C18: in every score() call that forms the weighted sum, the weights
\* applied sum to 1, whatever non-negative base weights (one of them positive)
\* the engine was constructed with and whatever the current regime
ClaimWeightTotal(weights) ==
    weights.w["technical_engine"] + weights.w["psychology_engine"]

C18_AppliedWeightsSumToOne ==
    (lastOp = "score" /\ result.engine_calls > 0) =>
        ClaimWeightTotal(result.weights_used) = result.weights_used.total

\* C19: every engine score entering the weighted sum lies in [0, 1], and so
\* does the final score of every score() call
C19_ScoresInUnitInterval ==
    lastOp = "score" =>
        /\ \A e \in DOMAIN result.engine_scores :
              result.engine_scores[e] \in 0..100
        /\ 0 <= result.final.num
        /\ result.final.num <= result.final.den

\* C20: a check that fails with an exception is contained to its instrument:
\* unless the task is cancelled, the pass goes on to every remaining
\* configured instrument, reaches its poll-interval sleep with all of them
\* checked, and the loop, still monitoring, leaves that sleep into a new pass
ClaimPassHasFailure ==
    \E k \in 1..Len(pass_checked) : pass_checked[k].raised = "Exception"

ClaimPassCancelled ==
    \E k \in 1..Len(pass_checked) : pass_checked[k].raised = "CancelledError"

ClaimAllChecked ==
    /\ Len(pass_checked) = Len(ConfigInstruments)
    /\ \A k \in 1..Len(pass_checked) :
          pass_checked[k].instrument = ConfigInstruments[k]

C20_FailureContainedToInstrument ==
    /\ []((ClaimPassHasFailure /\ ~ClaimPassCancelled) =>
             \/ loop_pc = "checking" /\ next_instrument = Len(pass_checked) + 1
             \/ loop_pc \in {"sleeping", "finished"} /\ ClaimAllChecked)
    /\ [][(ClaimPassHasFailure /\ loop_pc = "sleeping" /\ monitoring
              /\ loop_pc' # loop_pc)
            => (loop_pc' = "checking" /\ next_instrument' = 1
                  /\ pass_checked' = <<>>)]_vars

C20_Witness ==
    /\ loop_pc = "sleeping"
    /\ ClaimAllChecked
    /\ pass_checked[1].raised = "Exception"
    /\ pass_checked[3].raised = "none"
    /\ passes = 2

\* C21: when a market-data fetch of a check (open positions, price, spread or
\* candles) fails or returns nothing, the check raises no signal alert
ClaimFetchFailed(fetch) ==
    \/ fetch.positions \in {"empty", "raise"}
    \/ fetch.price = "none"
    \/ fetch.spread = "none"
    \/ fetch.candles = "none"

C21_FailedFetchSkipsCycle ==
    (lastOp = "check_signals" /\ ClaimFetchFailed(result.fetch)) =>
        result.outcome # "alert"

\* C22: calculate_position_size never raises for finite numeric inputs, a
\* stop_loss equal to entry_price and a zero account balance included
C22_SizingNeverRaises ==
    lastOp = "calculate_position_size" => ~result.raised

\* C23: the prediction history never holds more than 1000 records, and each
\* add_prediction_outcome call leaves the most recent records in arrival
\* order: the earlier history shifted by the evicted oldest records, then the
\* new record
ClaimKept(before, after) == Len(after) - 1

ClaimEvicted(before, after) == Len(before) - ClaimKept(before, after)

C23_HistoryKeepsMostRecent ==
    /\ [](Len(prediction_history) <= HistoryCap)
    /\ [][lastOp' = "add_prediction_outcome" =>
            /\ Len(prediction_history') =
                  (IF Len(prediction_history) < HistoryCap
                   THEN Len(prediction_history) + 1 ELSE HistoryCap)
            /\ \A i \in 1..ClaimKept(prediction_history, prediction_history') :
                  prediction_history'[i] =
                     prediction_history[i + ClaimEvicted(prediction_history,
                                                         prediction_history')]]_vars

C23_Witness ==
    /\ lastOp = "add_prediction_outcome"
    /\ Len(prediction_history) = HistoryCap
    /\ \A i \in 1..(HistoryCap - 1) : prediction_history[i].actual_outcome = 0
    /\ prediction_history[HistoryCap].actual_outcome = 1

\* C24: of two calculate_position_size calls with the same balance,
\* instrument, entry price, stop loss and kelly fraction, the one with the
\* higher gssi_score never returns more units
ClaimSameButGssi(a, b) ==
    /\ a.account_balance = b.account_balance
    /\ a.instrument = b.instrument
    /\ a.entry_price = b.entry_price
    /\ a.stop_loss = b.stop_loss
    /\ a.kelly_fraction = b.kelly_fraction

C24_UnitsNonIncreasingInGssi ==
    [][(/\ lastOp = "calculate_position_size"
        /\ lastOp' = "calculate_position_size"
        /\ ~result.raised
        /\ ClaimSameButGssi(result, result')
        /\ result.gssi_score <= result'.gssi_score)
         => result'.sizing.units <= result.sizing.units]_vars

C24_Witness ==
    /\ lastOp = "calculate_position_size"
    /\ result.gssi_score = 80
    /\ result.sizing.units > 0
    /\ result.sizing.units_risk # result.sizing.units_risk_base
    /\ ClaimAtMost(result.sizing.units, result.sizing.units_risk)
    /\ ~ClaimAtMost(result.sizing.units + 1, result.sizing.units_risk)

\* C25: compute(nav, day_profit_pct) returns the full nav when
\* day_profit_pct is 0
C25_FullNavAtZeroProfit ==
    (lastOp = "trade_bank" /\ result.day_profit_pct = 0) =>
        result.allocation = Rat(result.nav, 1)

\* C26: while the Sentinel is in Protect mode a check_add_eligibility call
\* makes no transition of the Add-to-Winners state machine and grants no add
C26_ProtectDisablesAdds ==
    [][(mode = "protect" /\ lastOp' = "check_add_eligibility") =>
          (atw_state' = atw_state /\ ~result'.has_new_breakeven)]_vars

\* C27: system_state changes only Normal -> WeightLock, WeightLock ->
\* Recalibration and Recalibration -> Normal, never takes the value
\* RouteDiversion, and record_execution, assess_execution_quality and
\* reset_route_diversion never change it
ClaimStateStep(from, to) ==
    \/ from = "normal" /\ to = "weight_lock"
    \/ from = "weight_lock" /\ to = "recalibration"
    \/ from = "recalibration" /\ to = "normal"

C27_StateMachineTransitions ==
    /\ [](system_state # "route_diversion")
    /\ [][system_state' # system_state => ClaimStateStep(system_state, system_state')]_vars
    /\ [][lastOp' \in {"record_execution", "assess_execution_quality",
                       "reset_route_diversion"}
            => system_state' = system_state]_vars

\* C28: an assessment made in Protect or Pounce returns the Sentinel to
\* StandDown as soon as the 6-hour mode duration has elapsed or the swan score
\* is below 0.70
C28_ReturnOnDurationOrDecay ==
    [][(/\ lastOp' = "assess_and_update_mode"
        /\ mode # "stand_down"
        /\ \/ now - mode_start_time >= ModeDuration
           \/ last_assessment'.swan_score < 70)
         => mode' = "stand_down"]_vars

\* C29: the Sentinel mode changes only between StandDown and an active mode,
\* never directly between Protect and Pounce
C29_NoDirectProtectPounce ==
    [][mode' # mode => (mode = "stand_down" \/ mode' = "stand_down")]_vars

\* C30: after every assess_and_update_mode call the override_active of the
\* returned result equals should_override_strategy_router() and the
\* override_active of get_current_status()
C30_OverrideFlagAgrees ==
    lastOp = "assess_and_update_mode" =>
        /\ result.override_active = should_override_strategy_router
        /\ result.override_active = get_current_status.override_active

\* C31: in Protect mode apply_protect_mode_constraints returns a
\* max_spread_pips of at most 1.0 and never above the value the caller passed
\* in; outside Protect mode it returns the trading parameters unchanged
C31_ProtectOnlyTightensSpread ==
    lastOp = "apply_protect_mode_constraints" =>
        IF mode = "protect"
        THEN /\ result.max_spread_pips <= 10
             /\ result.given_max_spread_pips # None =>
                   result.max_spread_pips <= result.given_max_spread_pips
        ELSE /\ result.max_spread_pips = result.given_max_spread_pips
             /\ ~result.strategy_blocked
             /\ ~result.add_to_winners_disabled

ClaimTpWithinCeiling ==
    result.given_tp_multiple = None \/ result.given_tp_multiple <= PounceTpMax

ClaimGssiBands(gssi_score) ==
    IF gssi_score >= 80 THEN Rat(4, 10)
    ELSE IF gssi_score >= 60 THEN Rat(6, 10)
    ELSE IF gssi_score >= 40 THEN Rat(8, 10)
    ELSE Rat(1, 1)

\* C33: for every gssi_score the sizer's _calculate_gssi_multiplier is 0.4
\* from 0.8, 0.6 from 0.6, 0.8 from 0.4 and 1.0 below, and equals the GSSI
\* factor apply_dynamic_leverage_adjustment returns for the same score
C33_SizerBandsEqualLeverageBands ==
    lastOp = "apply_dynamic_leverage_adjustment" =>
        /\ _calculate_gssi_multiplier(result.gssi_score) = ClaimGssiBands(result.gssi_score)
        /\ _calculate_gssi_multiplier(result.gssi_score) = result.gssi_multiplier

\* C34: calculate_gssi_score clamps each of its four components to [0,1]
\* before weighting, so the returned gssi_score lies within [0,1]
C34_GssiScoreInUnitInterval ==
    lastOp = "calculate_gssi_score" =>
        /\ \A c \in {"vix_stress", "correlation_stress", "liquidity_stress", "momentum_breakdown"} :
              result[c] >= 0 /\ result[c] <= 10000
        /\ result.gssi_score >= 0 /\ result.gssi_score <= 10000

\* the order's exposure |units| * price is above 50 * nav
ClaimOverLeveraged ==
    Abs(result.order.units) * result.price > AdapterLeverageCap * result.nav

\* C35: place_order never submits an order whose exposure |units| * price
\* exceeds 50 * nav, for any nav and price; it is blocked, with reason
\* leverage_exceeded unless the duplicate or the anti-hedging gate blocks first
C35_OverLeveragedNeverSubmitted ==
    (lastOp = "place_order" /\ ClaimOverLeveraged) =>
        /\ result.status = "blocked"
        /\ result.reason \in {"duplicate_order", "anti_hedging", "leverage_exceeded"}

\* C36: for any interleaving of start_monitoring and stop_monitoring calls at
\* most one _monitoring_loop task of the SignalEngine is running at any time
C36_AtMostOneLoop == RunningLoops <= 1

\* C37: every audit event emitted during a pipeline cycle carries the trace
\* id created for that cycle by trace_pipeline, also when the cycles of
\* different instruments are nested or interleaved on the same thread
C37_EventsCarryCycleTrace ==
    lastOp \in {"trace_pipeline_enter", "_base_event", "trace_pipeline_exit"} =>
        result.trace_id = result.cycle

\* the clock of the scenario runs past the end of the lock
ClaimClockOutlastsLock == weight_lock_start + WeightLockDuration <= MaxCalibTime

\* C38: a weight lock always ends: from WeightLock, with time advancing and
\* check_weight_lock_status and perform_isotonic_recalibration called again
\* and again, the auditor eventually returns to Normal
C38_WeightLockEnds ==
    (system_state = "weight_lock" /\ ClaimClockOutlastsLock) ~> (system_state = "normal")

\* C39: while the auditor is in WeightLock or Recalibration a calculate_ece
\* call, breach or not, changes neither system_state nor weight_lock_start: the
\* 48-hour window set by the first breach is not extended or restarted
C39_BreachDuringLockChangesNothing ==
    [][(lastOp' = "calculate_ece" /\ system_state \in {"weight_lock", "recalibration"}) =>
          /\ system_state' = system_state
          /\ weight_lock_start' = weight_lock_start
          /\ ~result'.weight_lock_triggered]_vars

\* a breach reported during a lock that started earlier
C39_Witness ==
    /\ lastOp = "calculate_ece"
    /\ result.breach
    /\ ~result.weight_lock_triggered
    /\ system_state = "weight_lock"
    /\ weight_lock_start < now

\* C40: for features within their nominal ranges classify_market_regime
\* never makes TRENDING_BULL the current regime: whenever TRENDING_BULL scores
\* highest its margin over the second best is below 0.4, so the confidence is
\* below 0.8
C40_BullNeverAdopted ==
    /\ current_regime # "trending_bull"
    /\ (lastOp = "classify_market_regime"
          /\ BestRegime(result.regime_scores) = "trending_bull") =>
          /\ result.confidence < ConfidenceThreshold
          /\ \E r \in (DOMAIN result.regime_scores) \ {"trending_bull"} :
                result.regime_scores.trending_bull - result.regime_scores[r] < 40

\* TRENDING_BULL scored highest, by its widest margin of the grid, and was not
\* adopted
C40_Witness ==
    /\ lastOp = "classify_market_regime"
    /\ BestRegime(result.regime_scores) = "trending_bull"
    /\ result.confidence = 64
    /\ ~result.regime_changed
    /\ current_regime = "crisis_mode"

====
